---- MODULE Spec2Model ----
(***************************************************************************)
(* A model of the Socrata SODA MCP server: HttpClient                       *)
(* (src/src/httpClient.ts), its RateLimiter (src/src/rateLimiter.ts),      *)
(* LruCache (src/src/cache.ts), the tools queryDataset, previewDataset and *)
(* getMetadata (src/src/tools), the limits they clamp paging to            *)
(* (src/src/limits.ts) and the SoQL builder (src/unnamed/part_007).        *)
(*                                                                         *)
(* Spec         one HttpClient serving request() calls against a           *)
(*              nondeterministic server.                                   *)
(* QuerySpec    the same client called through queryDataset().             *)
(* CacheSpec    one LruCache under set, get, clear and a passing clock.    *)
(* LimiterSpec  one RateLimiter under allow() and a passing clock.         *)
(* MetadataSpec getMetadata() calls that overlap, and its module cache.    *)
(* AuthSpec     the headers attachAuth gives to the calls of a client.     *)
(* PagingSpec   the limit and offset queryDataset and previewDataset send. *)
(* BuilderSpec  buildSoqlQuery and buildSoqlParams on the same SoqlParams. *)
(***************************************************************************)
EXTENDS Integers, Sequences, FiniteSets, TLC

VARIABLES
  \* ---- HttpClient configuration (constructor, httpClient.ts 49-59)
  ratePerHour,    \* domain.limits.requestsPerHour; 0 = absent, no limiter
  maxRetries,     \* this.maxRetries
  retryBaseMs,    \* this.retryBaseMs
  \* ---- clock and RateLimiter fields
  now,            \* Date.now(), ms
  allowance,      \* RateLimiter.allowance, a double (see FromInt)
  lastCheck,      \* RateLimiter.lastCheck
  \* ---- the request() call in progress
  pc,             \* "idle" | "fetching" | "backoff" | "resolved" | "rejected"
  attempt,        \* local variable attempt of request()
  lastError,      \* local variable lastError of request()
  backoffMs,      \* local variable backoffMs of the pending setTimeout
  callTimeout,    \* options.timeoutMs of the call (NoTimeout = absent)
  result,         \* what the promise of request() settled with
  \* ---- queryDataset
  qInput,         \* index of the input of the last queryDataset call, 0 = none
  qOutcome,       \* "none" | "threw" | "requested"
  \* ---- observation of the run (not program state)
  obs,            \* counters, see ClientInit
  \* ---- LruCache
  capacity,       \* LruCache.capacity
  ttlMs,          \* LruCache.ttlMs (NoTtl = null)
  map,            \* LruCache.map: entries in Map insertion order
  cobs,           \* observation of the cache run, see CacheNew
  \* ---- the calls of the other specifications, see their sections
  lim,            \* allow() calls made directly on a RateLimiter
  meta,           \* getMetadata: module state and the calls in flight
  auth,           \* HttpClient.attachAuth: domain auth, override, headers
  paging,         \* the paging values queryDataset/previewDataset send
  soql,           \* the latest compilation of the SoQL builder
  enrich,         \* the listDatasets call: its catalog, its requests, its result
  reg             \* the client registry, its clients and their requests

vars == <<ratePerHour, maxRetries, retryBaseMs, now, allowance, lastCheck,
          pc, attempt, lastError, backoffMs, callTimeout, result,
          qInput, qOutcome, obs, capacity, ttlMs, map, cobs,
          lim, meta, auth, paging, soql, enrich, reg>>

httpVars == <<ratePerHour, maxRetries, retryBaseMs, allowance, lastCheck,
              pc, attempt, lastError, backoffMs, callTimeout, result,
              qInput, qOutcome, obs>>

cacheVars == <<capacity, ttlMs, map, cobs>>

toolVars == <<lim, meta, auth, paging, soql, enrich, reg>>

(***************************************************************************)
(* Program constants                                                       *)
(***************************************************************************)
DEFAULT_TIMEOUT_MS == 15000
DEFAULT_MAX_RETRIES == 3
DEFAULT_RETRY_BASE_MS == 100
\* 60 * 60 * 1000 of RateLimiter.allow
MsPerHour == 3600000

(***************************************************************************)
(* Bounds of the model                                                     *)
(***************************************************************************)
\* largest ratePerHour of a RateLimiter used on its own
MaxRatePerHour == 3
\* largest maxRetries option tried besides the default
MaxRetriesOption == 3
\* request()/queryDataset() calls made on the client in one run
MaxRequests == 2
\* idle waits between calls in one run
MaxWaits == 1
\* queryDataset() calls made in one run
MaxQueries == 2
\* a per-call options.timeoutMs
CallTimeoutMs == 1000
\* largest LruCache capacity
MaxCapacity == 2
\* set/get/clear calls on the cache in one run
MaxCacheOps == 4
\* allow() calls and waits in one run of a RateLimiter used on its own
MaxAllowCalls == 5
MaxLimiterWaits == 2
\* calls of buildSoqlQuery and buildSoqlParams
MaxCompileCalls == 2
\* entries of the catalog listDatasets is answered with
MaxCatalog == 8
\* calls of queryDataset and previewDataset with paging values
MaxPagingCalls == 2
\* tool calls made through one client registry, and clock steps between them
MaxRegistryCalls == 2
MaxRegistryTicks == 1
\* calls made on a client to see the headers it sends
MaxAuthCalls == 2
\* getMetadata calls and clock steps in one run
MaxMetaCalls == 3
MaxMetaTicks == 1
\* clock steps in one run of the cache, and the length of one
MaxTicks == 2
TickMs == 50
\* the TTL of a cache that has one
CacheTtlMs == 100

\* undefined, where the code has a number | undefined
NoStatus == 0 - 1
NoTimeout == 0 - 1
NoData == 0

Pow2(n) == IF n <= 0 THEN 1 ELSE 2 ^ n

(***************************************************************************)
(* Errors and responses                                                    *)
(***************************************************************************)
\* what the server can answer: res.status and the parsed body (an id)
Statuses == {200, 404, 429, 500, 599}
Bodies == {1, 2}

NoError == [cls |-> "none", status |-> NoStatus, msgStatus |-> NoStatus,
            data |-> NoData, msg |-> ""]
NoResult == [kind |-> "none", status |-> NoStatus, data |-> NoData, err |-> NoError]

\* new HttpError(`HTTP ${res.status}: ${msg}`, res.status, data)
HttpError(status, data, msg) ==
  [cls |-> "HttpError", status |-> status, msgStatus |-> status,
   data |-> data, msg |-> msg]

\* the error performRequest throws when the limiter denies
RateLimitExceeded == HttpError(429, NoData, "client rate limit exceeded")

\* fetch rejects with a TypeError when the network fails
FetchFailed == [cls |-> "TypeError", status |-> NoStatus, msgStatus |-> NoStatus,
                data |-> NoData, msg |-> "fetch failed"]
\* fetch rejects with an AbortError when controller.abort() is called
AbortError == [cls |-> "AbortError", status |-> NoStatus, msgStatus |-> NoStatus,
               data |-> NoData, msg |-> "This operation was aborted"]
\* new Error(String(lastError)) with lastError undefined
ErrorOfUndefined == [cls |-> "Error", status |-> NoStatus, msgStatus |-> NoStatus,
                     data |-> NoData, msg |-> "undefined"]

extractStatus(err) ==
  IF err.cls = "HttpError" THEN err.status
  ELSE IF err.status # NoStatus THEN err.status
  ELSE IF err.cls # "none" THEN err.msgStatus
  ELSE NoStatus

isRetryableAnyErrorStatus(status) ==
  status # NoStatus /\ status >= 400 /\ status < 600
isRetryableServerErrorOnly(status) ==
  status # NoStatus /\ status >= 500 /\ status < 600
isRetryable(status) ==
  status = 429 \/ (status # NoStatus /\ status >= 500 /\ status < 600)

ResOk(status) == status >= 200 /\ status <= 299

Resolved(status, data) ==
  [kind |-> "response", status |-> status, data |-> data, err |-> NoError]
Rejected(err) ==
  [kind |-> "error", status |-> NoStatus, data |-> NoData, err |-> err]

(***************************************************************************)
(* Strings, as the SoQL builder's regular expressions read them            *)
(***************************************************************************)
Ch(s, i) == SubSeq(s, i, i)
UpperSeq == "ABCDEFGHIJKLMNOPQRSTUVWXYZ"
LowerSeq == "abcdefghijklmnopqrstuvwxyz"
DigitSeq == "0123456789"
CharsOf(s) == {Ch(s, i) : i \in 1..Len(s)}
Digits == CharsOf(DigitSeq)
Letters == CharsOf(UpperSeq \o LowerSeq)
\* \w
WordChars == Letters \cup Digits \cup {"_"}
\* \s, as far as the inputs of the model use it
WhiteSpace == {" ", "\t"}

\* String.prototype.toLowerCase, and what the i flag of a pattern does
toLowerCase(s) ==
  LET lower(c) ==
        IF \E i \in 1..Len(UpperSeq) : Ch(UpperSeq, i) = c
          THEN Ch(LowerSeq, CHOOSE i \in 1..Len(UpperSeq) : Ch(UpperSeq, i) = c)
          ELSE c
      RECURSIVE each(_)
      each(t) == IF t = "" THEN "" ELSE lower(Ch(t, 1)) \o each(SubSeq(t, 2, Len(t)))
  IN each(s)

\* String.prototype.trim
RECURSIVE trimStart(_)
trimStart(s) ==
  IF s # "" /\ Ch(s, 1) \in WhiteSpace THEN trimStart(SubSeq(s, 2, Len(s))) ELSE s
trim(s) ==
  LET RECURSIVE trimEnd(_)
      trimEnd(t) ==
        IF t # "" /\ Ch(t, Len(t)) \in WhiteSpace
          THEN trimEnd(SubSeq(t, 1, Len(t) - 1)) ELSE t
  IN trimEnd(trimStart(s))

\* /^[@a-zA-Z_][a-zA-Z0-9_:@-]*$/.test(s)
FIELD_REGEX(s) ==
  /\ s # ""
  /\ Ch(s, 1) \in Letters \cup {"@", "_"}
  /\ \A i \in 2..Len(s) : Ch(s, i) \in Letters \cup Digits \cup {"_", ":", "@", "-"}

\* /^[A-Za-z_][A-Za-z0-9_]*$/.test(s)
IDENT(s) ==
  /\ s # ""
  /\ Ch(s, 1) \in Letters \cup {"_"}
  /\ \A i \in 2..Len(s) : Ch(s, i) \in WordChars

\* /^[A-Za-z_][A-Za-z0-9_]*(?:\s+(?:ASC|DESC|asc|desc))?$/.test(s)
ORDER_CLAUSE(s) ==
  LET \* the length of the longest prefix of t made of word characters
      RECURSIVE WordPrefixLen(_)
      WordPrefixLen(t) ==
        IF t # "" /\ Ch(t, 1) \in WordChars
          THEN 1 + WordPrefixLen(SubSeq(t, 2, Len(t))) ELSE 0
      n == WordPrefixLen(s)
      rest == SubSeq(s, n + 1, Len(s))
  IN /\ n >= 1
     /\ Ch(s, 1) \in Letters \cup {"_"}
     /\ \/ rest = ""
        \/ /\ Ch(rest, 1) \in WhiteSpace
           /\ trimStart(rest) \in {"ASC", "DESC", "asc", "desc"}

\* the index of the quote q that closes a literal whose body starts at j, or
\* 0 when ([^q\\]|\\.)* cannot be followed by q
RECURSIVE ClosingQuote(_, _, _)
ClosingQuote(s, q, j) ==
  IF j > Len(s) THEN 0
  ELSE IF Ch(s, j) = q THEN j
  ELSE IF Ch(s, j) = "\\"
    THEN IF j + 1 <= Len(s) /\ Ch(s, j + 1) # "\n" THEN ClosingQuote(s, q, j + 2) ELSE 0
  ELSE ClosingQuote(s, q, j + 1)

\* clause.replace(/'([^'\\]|\\.)*'/g, '').replace(/"([^"\\]|\\.)*"/g, '')
stripQuotedLiterals(clause) ==
  LET \* s.replace(/q([^q\\]|\\.)*q/g, '') read from index i
      RECURSIVE StripQuoted(_, _, _)
      StripQuoted(s, q, i) ==
        IF i > Len(s) THEN ""
        ELSE IF Ch(s, i) = q /\ ClosingQuote(s, q, i + 1) > 0
          THEN StripQuoted(s, q, ClosingQuote(s, q, i + 1) + 1)
        ELSE Ch(s, i) \o StripQuoted(s, q, i + 1)
  IN StripQuoted(StripQuoted(clause, "'", 1), "\"", 1)

\* /lit/.test(s)
HasLiteral(s, lit) ==
  \E i \in 1..Len(s) : i + Len(lit) - 1 <= Len(s) /\ SubSeq(s, i, i + Len(lit) - 1) = lit

\* some pattern of DANGEROUS_PATTERNS matches s
DANGEROUS_PATTERNS(s) ==
  LET \* \b between index i - 1 and index i of s
      WordBoundary(i) ==
        LET before == i > 1 /\ i - 1 <= Len(s) /\ Ch(s, i - 1) \in WordChars
            after == i >= 1 /\ i <= Len(s) /\ Ch(s, i) \in WordChars
        IN before # after
      \* word, in lower case, is read at index i whatever its case
      At(i, word) ==
        /\ i + Len(word) - 1 <= Len(s)
        /\ toLowerCase(SubSeq(s, i, i + Len(word) - 1)) = word
      \* /\bword\b/i.test(s)
      HasKeyword(word) ==
        \E i \in 1..Len(s) :
          At(i, word) /\ WordBoundary(i) /\ WordBoundary(i + Len(word))
      \* /\bprefix/i.test(s)
      HasPrefixWord(prefix) ==
        \E i \in 1..Len(s) : At(i, prefix) /\ WordBoundary(i)
      \* /\bname\s*\(/i.test(s)
      HasCall(name) ==
        \E i \in 1..Len(s) :
          /\ At(i, name)
          /\ WordBoundary(i)
          /\ Ch(trimStart(SubSeq(s, i + Len(name), Len(s))), 1) = "("
      \* /0x[0-9a-f]+/i.test(s)
      HasHexLiteral ==
        \E i \in 1..Len(s) :
          /\ i + 2 <= Len(s)
          /\ Ch(s, i) = "0"
          /\ Ch(s, i + 1) \in {"x", "X"}
          /\ Ch(s, i + 2) \in Digits \cup CharsOf("abcdefABCDEF")
  IN \/ HasLiteral(s, ";")
     \/ HasLiteral(s, "--")
     \/ HasLiteral(s, "/*")
     \/ HasLiteral(s, "*/")
     \/ HasKeyword("union")
     \/ HasKeyword("into")
     \/ HasKeyword("drop")
     \/ HasKeyword("delete")
     \/ HasKeyword("insert")
     \/ HasKeyword("update")
     \/ HasKeyword("exec")
     \/ HasKeyword("execute")
     \/ HasPrefixWord("xp_")
     \/ HasPrefixWord("sp_")
     \/ HasLiteral(s, "||")
     \/ HasCall("char")
     \/ HasCall("concat")
     \/ HasHexLiteral

(***************************************************************************)
(* The values the tools and the SoQL builder take                          *)
(***************************************************************************)
\* values of type unknown
Undefined == [t |-> "undefined", n |-> 0, s |-> ""]
Null == [t |-> "null", n |-> 0, s |-> ""]
Num(n) == [t |-> "number", n |-> n, s |-> ""]
Str(s) == [t |-> "string", n |-> 0, s |-> s]

\* a SelectField; a bare string item has str = TRUE and only a column; args
\* is a sequence of Str and Num
SelectString(name) ==
  [str |-> TRUE, column |-> name, function |-> "", alias |-> "", args |-> <<>>]
SelectField(column, function, alias) ==
  [str |-> FALSE, column |-> column, function |-> function, alias |-> alias,
   args |-> <<>>]

\* a WhereCondition; an absent string field is "", an absent values has
\* hasValues = FALSE; columnFunction, valueFunction and booleanType are ""
\* when absent
WhereCondition(field, operator, value, value2, hasValues, values, valueIsNumeric) ==
  [field |-> field, operator |-> operator, value |-> value, value2 |-> value2,
   hasValues |-> hasValues, values |-> values, valueIsNumeric |-> valueIsNumeric,
   columnFunction |-> "", valueFunction |-> "", booleanType |-> ""]

\* the where of SoqlParams: undefined, a raw string, one condition or an array
NoWhere == [kind |-> "undefined", text |-> "", conds |-> <<>>]
RawWhere(text) == [kind |-> "string", text |-> text, conds |-> <<>>]
OneCondition(c) == [kind |-> "single", text |-> "", conds |-> <<c>>]
Conditions(cs) == [kind |-> "array", text |-> "", conds |-> cs]

(***************************************************************************)
(* limits.ts                                                               *)
(***************************************************************************)
DEFAULT_MAX_LIMIT == 5000
DEFAULT_DEFAULT_LIMIT == 500
DEFAULT_PREVIEW_LIMIT == 50
DEFAULT_MAX_OFFSET == 50000

\* value is Undefined or Num(n)
clampLimitUnfloored(value, fallback) ==
  LET n == IF value = Undefined THEN fallback ELSE value.n
  IN Num(IF n < DEFAULT_MAX_LIMIT THEN n ELSE DEFAULT_MAX_LIMIT)
clampLimit(value, fallback) ==
  LET n == IF value = Undefined THEN fallback ELSE value.n
      floored == IF n > 1 THEN n ELSE 1
  IN Num(IF floored < DEFAULT_MAX_LIMIT THEN floored ELSE DEFAULT_MAX_LIMIT)

clampOffset(value) ==
  LET n == IF value = Undefined THEN 0 ELSE value.n
      floored == IF n > 0 THEN n ELSE 0
  IN Num(IF floored < DEFAULT_MAX_OFFSET THEN floored ELSE DEFAULT_MAX_OFFSET)

(***************************************************************************)
(* The SoQL builder: what it renders, and the Error it throws              *)
(***************************************************************************)
\* what a function of the builder gives: the string it returns, or the
\* message of the Error it throws; no function throws an empty message
Ok(text) == [err |-> "", text |-> text]
Thrown(msg) == [err |-> msg, text |-> ""]

\* String(n) of an integer n
NumberToString(n) ==
  LET RECURSIVE DigitsOf(_)
      DigitsOf(m) ==
        IF m < 10 THEN Ch(DigitSeq, m + 1)
        ELSE DigitsOf(m \div 10) \o Ch(DigitSeq, (m % 10) + 1)
  IN IF n < 0 THEN "-" \o DigitsOf(0 - n) ELSE DigitsOf(n)

\* String.prototype.toUpperCase
toUpperCase(s) ==
  LET upper(c) ==
        IF \E i \in 1..Len(LowerSeq) : Ch(LowerSeq, i) = c
          THEN Ch(UpperSeq, CHOOSE i \in 1..Len(LowerSeq) : Ch(LowerSeq, i) = c)
          ELSE c
      RECURSIVE each(_)
      each(t) == IF t = "" THEN "" ELSE upper(Ch(t, 1)) \o each(SubSeq(t, 2, Len(t)))
  IN each(s)

\* Array.prototype.join of a sequence of strings
RECURSIVE Join(_, _)
Join(list, sep) ==
  IF Len(list) = 0 THEN ""
  ELSE IF Len(list) = 1 THEN list[1]
  ELSE list[1] \o sep \o Join(Tail(list), sep)

\* the first Error thrown while mapping a list: "" when none is
RECURSIVE FirstError(_)
FirstError(results) ==
  IF Len(results) = 0 THEN ""
  ELSE IF results[1].err # "" THEN results[1].err
  ELSE FirstError(Tail(results))

\* s.replace(/'/g, "''")
RECURSIVE DoubleQuotes(_)
DoubleQuotes(s) ==
  IF s = "" THEN ""
  ELSE (IF Ch(s, 1) = "'" THEN "''" ELSE Ch(s, 1)) \o DoubleQuotes(SubSeq(s, 2, Len(s)))

sanitizeValueBackslashed(value) ==
  LET RECURSIVE Escaped(_)
      Escaped(s) ==
        IF s = "" THEN ""
        ELSE (IF Ch(s, 1) = "'" THEN "\\'" ELSE Ch(s, 1)) \o Escaped(SubSeq(s, 2, Len(s)))
  IN IF value.t \in {"null", "undefined"} THEN "NULL"
     ELSE IF value.t = "number" THEN NumberToString(value.n)
     ELSE Escaped(value.s)
sanitizeValueUnescaped(value) ==
  IF value.t \in {"null", "undefined"} THEN "NULL"
  ELSE IF value.t = "number" THEN NumberToString(value.n)
  ELSE value.s
sanitizeValue(value) ==
  IF value.t \in {"null", "undefined"} THEN "NULL"
  ELSE IF value.t = "number" THEN NumberToString(value.n)
  ELSE DoubleQuotes(value.s)

validateField(field, type) ==
  IF field = "" THEN Thrown("Invalid " \o type \o ": must be a non-empty string")
  ELSE IF field = "*" THEN Ok(field)
  ELSE IF ~FIELD_REGEX(field)
    THEN Thrown("Invalid " \o type \o ": \"" \o field
                  \o "\" must match pattern /^[@a-zA-Z_][a-zA-Z0-9_:@-]*$/")
  ELSE Ok(field)

ensureSafeClause(clause, label) ==
  IF clause = "" THEN Ok(clause)
  ELSE IF DANGEROUS_PATTERNS(stripQuotedLiterals(clause))
    THEN Thrown("Unsafe " \o label \o ": potentially dangerous pattern detected")
  ELSE Ok(clause)

ensureSafeIdentifiers(list) ==
  LET bad == {i \in 1..Len(list) : ~IDENT(list[i])}
  IN IF bad = {} THEN Ok("")
     ELSE Thrown("Unsafe identifier: " \o list[CHOOSE i \in bad : \A j \in bad : i <= j])

ensureSafeOrderClauses(list) ==
  LET bad == {i \in 1..Len(list) : ~ORDER_CLAUSE(trim(list[i]))}
  IN IF bad = {} THEN Ok("")
     ELSE Thrown("Unsafe order clause: " \o list[CHOOSE i \in bad : \A j \in bad : i <= j])

\* args: a sequence of Str and Num
buildFunctionArgs(args) ==
  Join([i \in 1..Len(args) |->
          IF args[i].t = "number" THEN NumberToString(args[i].n)
          ELSE "'" \o sanitizeValue(args[i]) \o "'"], ", ")

buildSelectField(field) ==
  IF field.str THEN validateField(field.column, "select field")
  ELSE
    LET column == validateField(field.column, "select column")
        args == buildFunctionArgs(field.args)
        argsSuffix == IF args # "" THEN ", " \o args ELSE ""
        expr == IF field.function # ""
                  THEN field.function \o "(" \o field.column \o argsSuffix \o ")"
                  ELSE field.column
    IN IF column.err # "" THEN column
       ELSE IF field.alias = "" THEN Ok(expr)
       ELSE IF validateField(field.alias, "alias").err # ""
         THEN validateField(field.alias, "alias")
       ELSE Ok(expr \o " AS " \o field.alias)

\* the number, as the template literal around it renders it
requireNumeric(value, label) ==
  IF value.t # "number" THEN Thrown("Expected numeric " \o label)
  ELSE Ok(NumberToString(value.n))

buildConditionExpression(condition) ==
  LET field == validateField(condition.field, "where field")
      column == IF condition.columnFunction # ""
                  THEN condition.columnFunction \o "(" \o condition.field \o ")"
                  ELSE condition.field
      operator == IF condition.operator = "" THEN "=" ELSE condition.operator
      quoted(v) == "'" \o sanitizeValue(v) \o "'"
      operand(v, label) ==
        IF condition.valueIsNumeric THEN requireNumeric(v, label) ELSE Ok(quoted(v))
      wrapped(v) == IF condition.valueFunction # ""
                      THEN condition.valueFunction \o "(" \o quoted(v) \o ")"
                      ELSE quoted(v)
      val1 == operand(condition.value, "value")
      val2 == operand(condition.value2, "value2")
      vals == [i \in 1..Len(condition.values) |-> operand(condition.values[i], "values")]
  IN IF field.err # "" THEN field
     ELSE IF operator = "is null" THEN Ok(column \o " IS NULL")
     ELSE IF operator = "is not null" THEN Ok(column \o " IS NOT NULL")
     ELSE IF operator \in {"between", "not between"}
       THEN IF condition.value.t = "undefined" \/ condition.value2.t = "undefined"
              THEN Thrown("BETWEEN operator requires both value and value2")
            ELSE IF val1.err # "" THEN val1
            ELSE IF val2.err # "" THEN val2
            ELSE Ok(column \o " " \o toUpperCase(operator) \o " " \o val1.text
                      \o " AND " \o val2.text)
     ELSE IF operator \in {"in", "not in"} /\ condition.hasValues
       THEN IF Len(condition.values) = 0
              THEN Thrown("IN operator requires a non-empty values array")
            ELSE IF FirstError(vals) # "" THEN Thrown(FirstError(vals))
            ELSE Ok(column \o " " \o toUpperCase(operator) \o " ("
                      \o Join([i \in 1..Len(vals) |-> vals[i].text], ", ") \o ")")
     ELSE IF operator \in {"starts_with", "contains"}
       THEN Ok(operator \o "(" \o column \o ", " \o wrapped(condition.value) \o ")")
     ELSE IF condition.value.t \in {"null", "undefined"}
       THEN Ok(column \o (IF operator = "!=" THEN " IS NOT NULL" ELSE " IS NULL"))
     ELSE IF condition.valueIsNumeric
       THEN IF val1.err # "" THEN val1
            ELSE Ok(column \o " " \o operator \o " " \o val1.text)
     ELSE Ok(column \o " " \o operator \o " " \o wrapped(condition.value))

\* text "" stands for undefined
buildWhereClauseOwnJoiner(where) ==
  IF where.kind = "undefined" \/ (where.kind = "string" /\ where.text = "") THEN Ok("")
  ELSE IF where.kind = "string" THEN ensureSafeClause(where.text, "where")
  ELSE IF where.kind = "array"
    THEN LET results == [i \in 1..Len(where.conds) |->
                           buildConditionExpression(where.conds[i])]
             RECURSIVE Reduce(_, _)
             Reduce(i, acc) ==
               IF i > Len(results) THEN acc
               ELSE Reduce(i + 1,
                      IF i = 1 THEN "(" \o results[1].text \o ")"
                      ELSE acc \o " "
                             \o (IF where.conds[i].booleanType # ""
                                   THEN where.conds[i].booleanType
                                 ELSE "AND")
                             \o " (" \o results[i].text \o ")")
         IN IF FirstError(results) # "" THEN Thrown(FirstError(results))
            ELSE Ok(Reduce(1, ""))
  ELSE buildConditionExpression(where.conds[1])
buildWhereClause(where) ==
  IF where.kind = "undefined" \/ (where.kind = "string" /\ where.text = "") THEN Ok("")
  ELSE IF where.kind = "string" THEN ensureSafeClause(where.text, "where")
  ELSE IF where.kind = "array"
    THEN LET results == [i \in 1..Len(where.conds) |->
                           buildConditionExpression(where.conds[i])]
             \* expressions.reduce(...): the conditions from the i-th on,
             \* joined to acc
             RECURSIVE Reduce(_, _)
             Reduce(i, acc) ==
               IF i > Len(results) THEN acc
               ELSE Reduce(i + 1,
                      IF i = 1 THEN "(" \o results[1].text \o ")"
                      ELSE acc \o " "
                             \o (IF where.conds[i - 1].booleanType # ""
                                   THEN where.conds[i - 1].booleanType
                                 ELSE "AND")
                             \o " (" \o results[i].text \o ")")
         IN IF FirstError(results) # "" THEN Thrown(FirstError(results))
            ELSE Ok(Reduce(1, ""))
  ELSE buildConditionExpression(where.conds[1])

\* a SoqlParams; an absent array is <<>>, an absent string is "", an absent
\* where is NoWhere, an absent number is Undefined
SoqlParams(select, where, order, group, having, search, limit, offset) ==
  [select |-> select, where |-> where, order |-> order, group |-> group,
   having |-> having, search |-> search, limit |-> limit, offset |-> offset]

\* params.select.map((f) => buildSelectField(f)).join(', ')
SelectList(params) ==
  LET results == [i \in 1..Len(params.select) |-> buildSelectField(params.select[i])]
  IN IF FirstError(results) # "" THEN Thrown(FirstError(results))
     ELSE Ok(Join([i \in 1..Len(results) |-> results[i].text], ", "))

\* the validation both functions run, in their order: the first Error thrown
ClauseError(params) ==
  FirstError(<<SelectList(params),
               buildWhereClause(params.where),
               ensureSafeIdentifiers(params.group),
               ensureSafeClause(params.having, "having"),
               ensureSafeOrderClauses(params.order)>>)

\* the strings of a sequence that are not "", last first
NonEmptyReversed(list) ==
  LET RECURSIVE Reversed(_)
      Reversed(rest) ==
        IF Len(rest) = 0 THEN <<>>
        ELSE Reversed(Tail(rest)) \o (IF rest[1] = "" THEN <<>> ELSE <<rest[1]>>)
  IN Reversed(list)
\* the strings of a sequence that are not ""
RECURSIVE NonEmpty(_)
NonEmpty(list) ==
  IF Len(list) = 0 THEN <<>>
  ELSE IF list[1] = "" THEN NonEmpty(Tail(list))
  ELSE <<list[1]>> \o NonEmpty(Tail(list))

buildSoqlQuery(params) ==
  IF ClauseError(params) # "" THEN Thrown(ClauseError(params))
  ELSE Ok(Join(NonEmpty(<<
    IF Len(params.select) > 0 THEN "SELECT " \o SelectList(params).text ELSE "",
    IF buildWhereClause(params.where).text # ""
      THEN "WHERE " \o buildWhereClause(params.where).text ELSE "",
    IF Len(params.group) > 0 THEN "GROUP BY " \o Join(params.group, ", ") ELSE "",
    IF params.having # "" THEN "HAVING " \o params.having ELSE "",
    IF Len(params.order) > 0 THEN "ORDER BY " \o Join(params.order, ", ") ELSE "",
    IF params.search # ""
      THEN "SEARCH '" \o sanitizeValue(Str(params.search)) \o "'" ELSE "",
    IF params.limit.t = "number" THEN "LIMIT " \o NumberToString(params.limit.n) ELSE "",
    IF params.offset.t = "number" THEN "OFFSET " \o NumberToString(params.offset.n) ELSE ""
  >>), " "))

\* the keys of the parameter map, in the order of the clauses
ParamKeys == <<"$select", "$where", "$group", "$having", "$order", "$q", "$limit", "$offset">>

\* the Record buildSoqlParams returns: a function from the keys it has set,
\* or the message of the Error it throws
buildSoqlParams(params) ==
  LET whereClause == buildWhereClause(params.where).text
      isSet == [k \in {ParamKeys[i] : i \in 1..Len(ParamKeys)} |->
                  IF k = "$select" THEN Len(params.select) > 0
                  ELSE IF k = "$where" THEN whereClause # ""
                  ELSE IF k = "$group" THEN Len(params.group) > 0
                  ELSE IF k = "$having" THEN params.having # ""
                  ELSE IF k = "$order" THEN Len(params.order) > 0
                  ELSE IF k = "$q" THEN params.search # ""
                  ELSE IF k = "$limit" THEN params.limit.t = "number"
                  ELSE params.offset.t = "number"]
      valueOf(k) ==
        IF k = "$select" THEN SelectList(params).text
        ELSE IF k = "$where" THEN whereClause
        ELSE IF k = "$group" THEN Join(params.group, ", ")
        ELSE IF k = "$having" THEN params.having
        ELSE IF k = "$order" THEN Join(params.order, ", ")
        ELSE IF k = "$q" THEN params.search
        ELSE IF k = "$limit" THEN NumberToString(params.limit.n)
        ELSE NumberToString(params.offset.n)
  IN IF ClauseError(params) # ""
       THEN [err |-> ClauseError(params), result |-> [k \in {} |-> ""]]
     ELSE [err |-> "",
           result |-> [k \in {k \in DOMAIN isSet : isSet[k]} |-> valueOf(k)]]

(***************************************************************************)
(* queryDataset: from the tool input to the SoqlParams                     *)
(***************************************************************************)
\* a QueryInput; an absent array is <<>>, an absent string is "";
\* suppliedSelectFields tells a selectFields that is supplied as [] from an
\* absent one (the code reads selectFields?.length, the same for both)
QueryInput(select, selectFields, where, whereConditions, order, group, having, search) ==
  [select |-> select, selectFields |-> selectFields, where |-> where,
   whereConditions |-> whereConditions, order |-> order, group |-> group,
   having |-> having, search |-> search,
   suppliedSelectFields |-> Len(selectFields) > 0]

normalizeSelect(input) ==
  IF Len(input.selectFields) > 0 THEN input.selectFields
  ELSE IF Len(input.select) > 0
    THEN [i \in 1..Len(input.select) |-> SelectString(input.select[i])]
  ELSE <<>>

normalizeWhere(input) ==
  IF input.whereConditions.kind # "undefined" THEN input.whereConditions
  ELSE IF input.where # "" THEN RawWhere(input.where)
  ELSE NoWhere

hasStructured(input) ==
  \/ Len(normalizeSelect(input)) > 0
  \/ normalizeWhere(input).kind # "undefined"
  \/ Len(input.order) > 0
  \/ Len(input.group) > 0
  \/ input.having # ""
  \/ input.search # ""

\* the SoqlParams queryDataset builds
soqlParams(input, safeLimit, safeOffset) ==
  SoqlParams(normalizeSelect(input), normalizeWhere(input), input.order,
             input.group, input.having, input.search, safeLimit, safeOffset)

\* queryDataset(client, input) throws before it reaches client.request; the
\* clamped limit and offset are numbers whatever the input, so the verdict
\* does not depend on them
queryDatasetThrows(input) ==
  /\ hasStructured(input)
  /\ buildSoqlQuery(soqlParams(input, clampLimit(Undefined, DEFAULT_DEFAULT_LIMIT),
                                clampOffset(Undefined))).err # ""

\* the tool inputs the model calls queryDataset with
Eq(field, value) ==
  WhereCondition(field, "", value, Undefined, FALSE, <<>>, FALSE)
QueryInputs ==
  << \* 1: nothing but paging
     QueryInput(<<>>, <<>>, "", NoWhere, <<>>, <<>>, "", ""),
     \* 2: legacy select, order with a modifier, group
     QueryInput(<<"borough", "total">>, <<>>, "", NoWhere, <<"total DESC">>, <<"borough">>, "", ""),
     \* 3: unsafe identifier in the select list
     QueryInput(<<"name; DROP TABLE x">>, <<>>, "", NoWhere, <<>>, <<>>, "", ""),
     \* 4: unsafe identifier in the group list
     QueryInput(<<>>, <<>>, "", NoWhere, <<>>, <<"a-b">>, "", ""),
     \* 5: unsafe order clause
     QueryInput(<<>>, <<>>, "", NoWhere, <<"name; DROP TABLE x">>, <<>>, "", ""),
     \* 6: raw where, denylisted word inside a literal only
     QueryInput(<<>>, <<>>, "name LIKE 'Union Square%'", NoWhere, <<>>, <<>>, "", ""),
     \* 7: raw where, denylisted word outside literals
     QueryInput(<<>>, <<>>, "1=1 UNION SELECT * FROM x", NoWhere, <<>>, <<>>, "", ""),
     \* 8: raw having with a comment
     QueryInput(<<"borough">>, <<>>, "", NoWhere, <<>>, <<"borough">>, "count(*) > 1 -- x", ""),
     \* 9: between without value2
     QueryInput(<<>>, <<>>, "",
                OneCondition(WhereCondition("amount", "between", Num(10), Undefined,
                                            FALSE, <<>>, TRUE)),
                <<>>, <<>>, "", ""),
     \* 10: between with both operands
     QueryInput(<<>>, <<>>, "",
                OneCondition(WhereCondition("amount", "between", Num(10), Num(100),
                                            FALSE, <<>>, TRUE)),
                <<>>, <<>>, "", ""),
     \* 11: in with an empty values array
     QueryInput(<<>>, <<>>, "",
                OneCondition(WhereCondition("status", "in", Undefined, Undefined,
                                            TRUE, <<>>, FALSE)),
                <<>>, <<>>, "", ""),
     \* 12: in without a values array
     QueryInput(<<>>, <<>>, "",
                OneCondition(WhereCondition("status", "in", Undefined, Undefined,
                                            FALSE, <<>>, FALSE)),
                <<>>, <<>>, "", ""),
     \* 13: structured conditions next to an unsafe raw where, search term
     QueryInput(<<>>, <<SelectField("amount", "sum", "total")>>, "1=1; DROP TABLE x",
                Conditions(<<Eq("borough", Str("MANHATTAN")), Eq("borough", Str("O'Brien"))>>),
                <<>>, <<>>, "", "union; drop"),
     \* 14: numeric comparison with a string value
     QueryInput(<<>>, <<>>, "",
                OneCondition(WhereCondition("amount", ">", Str("1 OR 1=1"), Undefined,
                                            FALSE, <<>>, TRUE)),
                <<>>, <<>>, "", ""),
     \* 15: unsafe alias
     QueryInput(<<>>, <<SelectField("amount", "sum", "t x")>>, "", NoWhere, <<>>, <<>>, "", ""),
     \* 16: selectFields next to a legacy select
     QueryInput(<<"borough">>, <<SelectField("amount", "sum", "total")>>, "", NoWhere,
                <<>>, <<>>, "", ""),
     \* 17: selectFields supplied as [] next to a legacy select
     [QueryInput(<<"name">>, <<>>, "", NoWhere, <<>>, <<>>, "", "")
        EXCEPT !.suppliedSelectFields = TRUE],
     \* 18: whereConditions supplied as [] next to a legacy where
     QueryInput(<<>>, <<>>, "status = 'active'", Conditions(<<>>), <<>>, <<>>, "", ""),
     \* 19: one whereCondition next to a legacy where
     QueryInput(<<>>, <<>>, "status = 'active'", OneCondition(Eq("borough", Str("BRONX"))),
                <<>>, <<>>, "", ""),
     \* 20: legacy select and legacy where only
     QueryInput(<<"name">>, <<>>, "status = 'active'", NoWhere, <<>>, <<>>, "", ""),
     \* 21: selectFields supplied as [] and whereConditions supplied as [],
     \* next to both legacy inputs
     [QueryInput(<<"name">>, <<>>, "status = 'active'", Conditions(<<>>), <<>>, <<>>, "", "")
        EXCEPT !.suppliedSelectFields = TRUE]
  >>

\* input.limit and input.offset of a caller: absent, or an integer
PagingValues ==
  {Undefined} \cup
  {Num(n) : n \in {0 - 2147483647, 0 - 1, 0, 1, DEFAULT_PREVIEW_LIMIT,
                   DEFAULT_DEFAULT_LIMIT, DEFAULT_MAX_LIMIT - 1, DEFAULT_MAX_LIMIT,
                   DEFAULT_MAX_LIMIT + 1, DEFAULT_MAX_OFFSET, DEFAULT_MAX_OFFSET + 1,
                   2147483647}}

\* the $query text of each input under each clamped limit and offset,
\* computed once
QueryTexts ==
  [i \in 1..Len(QueryInputs) |->
    [safeLimit \in {clampLimit(limit, DEFAULT_DEFAULT_LIMIT) : limit \in PagingValues},
     safeOffset \in {clampOffset(offset) : offset \in PagingValues} |->
       buildSoqlQuery(soqlParams(QueryInputs[i], safeLimit, safeOffset)).text]]

\* queryDatasetThrows of each input, computed once
QueryVerdicts == [i \in 1..Len(QueryInputs) |-> queryDatasetThrows(QueryInputs[i])]

(***************************************************************************)
(* The inputs the builder is called with                                   *)
(***************************************************************************)
NoParams == SoqlParams(<<>>, NoWhere, <<>>, <<>>, "", "", Undefined, Undefined)

\* identifiers that match the field grammar or are *, and some that do not
Identifiers ==
  {"a", "_a1", "@x", "a-b", "a:b", "A9", "*", "a;b", "1a", "a b", "-a", "a.b", "a'b"}

\* raw where and having strings
RawClauses ==
  {"name LIKE 'Union Square%'", "1=1 UNION SELECT * FROM x", "status = 'active'",
   "a = 1; DROP TABLE x", "a = 'x; y'", "a = 1 -- c", "a = \"--\"",
   "a /* c", "a */ b", "a = 'x' || 'y'", "a = CHAR(65)", "a = concat (b, c)",
   "a = 0x1F", "xp_cmd = 1", "sp_who = 1", "EXEC x", "execute x", "Insert x",
   "update x", "delete x", "a into b", "drop x", "reunion = 1", "a = 'O''Brien; x'",
   "a = \"x'\" ; DROP TABLE t ; \"'y\"", "name = \"it's\" OR x = 'a;b'",
   "a = 'x\\' ; DROP TABLE t --'", "a = 'x\\\\' ; DROP TABLE t", "a = 'x\\'y' OR b = 1",
   "a = \"x\\\" UNION SELECT \\\"y\""}

\* function names: the AggregateFunction and TransformFunction of the
\* types, and names that are neither
AggregateFunctions == {"sum", "count", "avg", "min", "max", "stddev_samp", "stddev_pop"}
TransformFunctions ==
  {"upper", "lower", "date_trunc_y", "date_trunc_ym", "date_trunc_ymd", "length", "abs"}
OtherFunctions == {"pg_sleep", "now()) --"}

\* the SoqlParams that hold x at one place and nothing else: an identifier,
\* a raw clause, a function name, a condition or an array of conditions
Placed(place, x) ==
  IF place = "select string" THEN [NoParams EXCEPT !.select = <<SelectString(x)>>]
  ELSE IF place = "select column"
    THEN [NoParams EXCEPT !.select = <<SelectField(x, "sum", "")>>]
  ELSE IF place = "alias"
    THEN [NoParams EXCEPT !.select = <<SelectField("amount", "sum", x)>>]
  ELSE IF place = "where field"
    THEN [NoParams EXCEPT !.where = OneCondition(Eq(x, Str("x")))]
  ELSE IF place = "group" THEN [NoParams EXCEPT !.group = <<x>>]
  ELSE IF place = "order" THEN [NoParams EXCEPT !.order = <<x>>]
  ELSE IF place = "where" THEN [NoParams EXCEPT !.where = RawWhere(x)]
  ELSE IF place = "having" THEN [NoParams EXCEPT !.having = x]
  ELSE IF place = "select function"
    THEN [NoParams EXCEPT !.select = <<SelectField("amount", x, "")>>]
  ELSE IF place = "column function"
    THEN [NoParams EXCEPT !.where =
            OneCondition([Eq("name", Str("x")) EXCEPT !.columnFunction = x])]
  ELSE IF place = "value function"
    THEN [NoParams EXCEPT !.where =
            OneCondition([Eq("name", Str("x")) EXCEPT !.valueFunction = x])]
  ELSE IF place = "condition" THEN [NoParams EXCEPT !.where = OneCondition(x)]
  ELSE [NoParams EXCEPT !.where = Conditions(x)]

\* the SoqlParams the model calls the builder with
SoqlInputs ==
  LET \* operands of in and not in
      ListOperands ==
        {[hasValues |-> FALSE, values |-> <<>>, value |-> Undefined, numeric |-> FALSE],
         [hasValues |-> FALSE, values |-> <<>>, value |-> Str("x"), numeric |-> FALSE],
         [hasValues |-> TRUE, values |-> <<>>, value |-> Undefined, numeric |-> FALSE],
         [hasValues |-> TRUE, values |-> <<Str("a")>>, value |-> Undefined,
          numeric |-> FALSE],
         [hasValues |-> TRUE, values |-> <<Str("a"), Str("O'Brien")>>,
          value |-> Undefined, numeric |-> FALSE],
         [hasValues |-> TRUE, values |-> <<Num(1), Num(0 - 20)>>, value |-> Undefined,
          numeric |-> TRUE],
         [hasValues |-> TRUE, values |-> <<Num(1), Str("2")>>, value |-> Undefined,
          numeric |-> TRUE]}
      \* operands of between and not between
      RangeOperands ==
        {[value |-> Num(10), value2 |-> Num(100), numeric |-> TRUE],
         [value |-> Str("a"), value2 |-> Str("b'c"), numeric |-> FALSE],
         [value |-> Undefined, value2 |-> Num(100), numeric |-> TRUE],
         [value |-> Num(10), value2 |-> Undefined, numeric |-> TRUE],
         [value |-> Undefined, value2 |-> Undefined, numeric |-> FALSE],
         [value |-> Null, value2 |-> Str("b"), numeric |-> FALSE],
         [value |-> Str("1"), value2 |-> Num(2), numeric |-> TRUE]}
      \* string values with quotes, backslashes and denylisted words
      QuotedValues ==
        {"plain", "O'Brien", "'", "''", "x'", "'x", "it''s", "a' OR '1'='1",
         "'; DROP TABLE t --", "1 UNION SELECT 2", "a\\' OR 1=1 --", "\"x\""}
  IN {Placed(place, id) :
        place \in {"select string", "select column", "alias", "where field",
                   "group", "order"},
        id \in Identifiers}
     \cup {Placed(place, text) : place \in {"where", "having"}, text \in RawClauses}
     \cup {Placed("select function", fn) :
             fn \in AggregateFunctions \cup TransformFunctions \cup OtherFunctions}
     \cup {Placed(place, fn) :
             place \in {"column function", "value function"},
             fn \in TransformFunctions \cup OtherFunctions}
     \cup {Placed("condition",
                  WhereCondition("status", op, o.value, Undefined, o.hasValues,
                                 o.values, o.numeric)) :
             op \in {"in", "not in"}, o \in ListOperands}
     \cup {Placed("condition",
                  WhereCondition("amount", op, o.value, o.value2, FALSE, <<>>,
                                 o.numeric)) :
             op \in {"between", "not between"}, o \in RangeOperands}
     \* order entries: a column with a modifier in some letter case, with
     \* white space around it, or with something else after it
     \cup {Placed("order", entry) :
             entry \in {"name ASC", "name DESC", "name asc", "name desc", "name Desc",
                        "name Asc", "name dEsC", "name  DESC", " name asc ",
                        "name\tASC", "name INVALID", "name --comment",
                        "name; DROP TABLE", "name DESC x", "name asc desc",
                        "nameDESC", "DESC", "name ASCENDING", "1name desc",
                        "name ,desc", ""}}
     \* where arrays of two and of three conditions, each with a booleanType
     \* or none
     \cup {Placed("conditions",
                  [i \in 1..Len(types) |->
                     [Eq(<<"a", "b", "c">>[i], Str(<<"x", "y", "O'Brien">>[i]))
                        EXCEPT !.booleanType = types[i]]]) :
             types \in UNION {[1..n -> {"", "AND", "OR"}] : n \in 2..3}}
     \* queries of several clauses
     \cup
  {NoParams,
   [NoParams EXCEPT !.limit = Num(10), !.offset = Num(5)],
   [NoParams EXCEPT !.select = <<SelectString("col1"), SelectString("col2")>>,
                    !.limit = Num(10), !.offset = Num(5)],
   [NoParams EXCEPT !.search = "noise complaint"],
   [NoParams EXCEPT !.search = "O'Brien"],
   [NoParams EXCEPT !.order = <<"created_date DESC", "name asc">>],
   [NoParams EXCEPT !.select = <<[SelectField("d", "date_trunc_ym", "m")
                                       EXCEPT !.args = <<Str("x'y"), Num(2)>>]>>],
   [NoParams EXCEPT !.where = OneCondition(
                      WhereCondition("name", "starts_with", Str("A"), Undefined,
                                     FALSE, <<>>, FALSE))],
   [NoParams EXCEPT !.where = OneCondition(
                      WhereCondition("n", "!=", Null, Undefined, FALSE, <<>>, FALSE))],
   [NoParams EXCEPT !.where = OneCondition(
                      WhereCondition("n", ">=", Num(5), Undefined, FALSE, <<>>, TRUE))],
   [NoParams EXCEPT !.where = OneCondition(
                      WhereCondition("n", "is not null", Undefined, Undefined, FALSE,
                                     <<>>, FALSE))],
   [NoParams EXCEPT !.where = Conditions(<<>>)],
   SoqlParams(<<SelectString("borough"), SelectField("amount", "sum", "total")>>,
              Conditions(<<[Eq("borough", Str("MANHATTAN")) EXCEPT !.booleanType = "OR"],
                           Eq("borough", Str("O'Brien")),
                           WhereCondition("amount", ">", Num(5), Undefined, FALSE,
                                          <<>>, TRUE)>>),
              <<"total DESC">>, <<"borough">>, "sum(amount) > 10", "O'Brien",
              Num(10), Num(5)),
   SoqlParams(<<SelectString("a;b")>>, RawWhere("1=1; DROP TABLE x"),
              <<"x y z">>, <<"a-b">>, "a -- b", "q", Num(1), Num(0))}
     \* a string value as the operand of a condition, as the argument of a
     \* select function and as the search term
     \cup {Placed("condition",
                  WhereCondition("name", op, Str(v), Str("z"), FALSE, <<>>, FALSE)) :
             op \in {"", "!=", "like", "starts_with", "contains", "between"},
             v \in QuotedValues}
     \cup {Placed("condition",
                  WhereCondition("name", "in", Undefined, Undefined, TRUE,
                                 <<Str("a"), Str(v), Str(v)>>, FALSE)) :
             v \in QuotedValues}
     \cup {[NoParams EXCEPT !.search = v] : v \in QuotedValues}
     \cup {[NoParams EXCEPT
              !.select = <<[SelectField("d", "date_trunc_ym", "m")
                              EXCEPT !.args = <<Str(v), Num(2), Str(v)>>]>>,
              !.where = Conditions(<<Eq("a", Str(v)),
                                     [Eq("b", Str(v)) EXCEPT !.valueFunction = "upper"]>>),
              !.search = v] :
             v \in QuotedValues}
     \* every combination of present and absent clauses
     \cup {SoqlParams(IF 1 \in present THEN <<SelectString("a")>> ELSE <<>>,
                      IF 2 \in present THEN RawWhere("b = 1") ELSE NoWhere,
                      IF 5 \in present THEN <<"d DESC">> ELSE <<>>,
                      IF 3 \in present THEN <<"c">> ELSE <<>>,
                      IF 4 \in present THEN "count(*) > 1" ELSE "",
                      IF 6 \in present THEN "e" ELSE "",
                      IF 7 \in present THEN Num(10) ELSE Undefined,
                      IF 8 \in present THEN Num(20) ELSE Undefined) :
             present \in SUBSET (1..Len(ParamKeys))}

\* each input with what the two functions give for it, computed once
Compiled ==
  {[params |-> params, query |-> buildSoqlQuery(params), map |-> buildSoqlParams(params)] :
     params \in SoqlInputs}

\* buildSoqlQuery(params) and buildSoqlParams(params), call being the params
\* with what the functions give for them
Compile(call) ==
  /\ soql.calls < MaxCompileCalls
  /\ soql' = [calls |-> soql.calls + 1, params |-> call.params,
              query |-> call.query, map |-> call.map]
  /\ UNCHANGED <<now, cobs, lim, meta, auth, paging, enrich, reg, capacity, ttlMs, map>>
  /\ UNCHANGED httpVars

(***************************************************************************)
(* Numbers of the RateLimiter: IEEE 754 double precision, non-negative     *)
(***************************************************************************)
\* A double is held exactly, as a fixed-point numeral of NumLimbs digits in
\* base LimbBase, least significant digit first, the last digit being the
\* integer part: its value is the numeral times 2^-(LimbBits * FracLimbs).
\* Every result is rounded to SignificandBits significant bits, to nearest,
\* ties to even, as the arithmetic of a JavaScript number rounds it.
SignificandBits == 53
LimbBits == 8
FracLimbs == 10
LimbBase == 2 ^ LimbBits
NumLimbs == FracLimbs + 1

\* the double of a small non-negative integer
FromInt(n) == [i \in 1..NumLimbs |-> IF i = NumLimbs THEN n ELSE 0]

\* x < y
Less(x, y) ==
  LET RECURSIVE LessFrom(_)
      LessFrom(i) ==
        IF i = 0 THEN FALSE
        ELSE IF x[i] # y[i] THEN x[i] < y[i]
        ELSE LessFrom(i - 1)
  IN LessFrom(NumLimbs)

\* the exact sum x + y
ExactSum(x, y) ==
  LET \* from digit i on, with a carry
      RECURSIVE AddFrom(_, _)
      AddFrom(i, carry) ==
        IF i > NumLimbs THEN <<>>
        ELSE LET s == x[i] + y[i] + carry
             IN <<s % LimbBase>> \o AddFrom(i + 1, s \div LimbBase)
  IN AddFrom(1, 0)

\* x rounded to SignificandBits significant bits; sticky tells that the
\* exact value lies above x by less than one unit of the last digit
RoundDouble(x, sticky) ==
  LET \* the place of the highest digit of x that is not 0, among the first i
      RECURSIVE TopLimb(_)
      TopLimb(i) == IF i = 0 \/ x[i] # 0 THEN i ELSE TopLimb(i - 1)
      \* the number of bits of a digit
      BitLen(v) ==
        IF v = 0 THEN 0 ELSE CHOOSE n \in 1..LimbBits : 2 ^ (n - 1) <= v /\ v < 2 ^ n
      top == TopLimb(NumLimbs)
  IN IF top = 0 THEN x
     ELSE
       LET drop == LimbBits * (top - 1) + BitLen(x[top]) - SignificandBits
       IN IF drop <= 0 THEN x
          ELSE
            LET q == drop \div LimbBits
                r == drop % LimbBits
                \* the highest dropped bit, and whether any lower one is set
                halfSet == IF r > 0 THEN (x[q + 1] \div (2 ^ (r - 1))) % 2 = 1
                           ELSE x[q] \div (LimbBase \div 2) = 1
                below == IF r > 0
                           THEN \/ x[q + 1] % (2 ^ (r - 1)) # 0
                                \/ \E i \in 1..q : x[i] # 0
                           ELSE \/ x[q] % (LimbBase \div 2) # 0
                                \/ \E i \in 1..(q - 1) : x[i] # 0
                odd == (x[q + 1] \div (2 ^ r)) % 2 = 1
                up == halfSet /\ (below \/ sticky \/ odd)
                kept == [i \in 1..NumLimbs |->
                           IF i <= q THEN 0
                           ELSE IF i = q + 1 THEN x[i] - (x[i] % (2 ^ r))
                           ELSE x[i]]
                ulp == [i \in 1..NumLimbs |-> IF i = q + 1 THEN 2 ^ r ELSE 0]
            IN IF up THEN ExactSum(kept, ulp) ELSE kept

\* the arithmetic of doubles the limiter uses: n / d of two integers
Quotient(n, d) ==
  LET \* the remainder of the long division of n by d, after the digits
      \* NumLimbs down to i of the quotient have been produced
      RECURSIVE DivRemainder(_)
      DivRemainder(i) ==
        IF i > NumLimbs THEN 0
        ELSE (DivRemainder(i + 1) * LimbBase + FromInt(n)[i]) % d
      \* the quotient cut off after the last digit
      FloorQuotient ==
        [i \in 1..NumLimbs |->
           (DivRemainder(i + 1) * LimbBase + FromInt(n)[i]) \div d]
  IN RoundDouble(FloorQuotient, DivRemainder(1) # 0)
\* k * x of a non-negative integer and a double
Times(k, x) ==
  LET \* the exact product, from digit i on with a carry
      RECURSIVE MulFrom(_, _)
      MulFrom(i, carry) ==
        IF i > NumLimbs THEN <<>>
        ELSE LET s == x[i] * k + carry
             IN <<s % LimbBase>> \o MulFrom(i + 1, s \div LimbBase)
  IN IF k = 0 THEN FromInt(0) ELSE RoundDouble(MulFrom(1, 0), FALSE)
Plus(x, y) == RoundDouble(ExactSum(x, y), FALSE)
\* x - 1 for x >= 1
MinusOne(x) == RoundDouble([x EXCEPT ![NumLimbs] = @ - 1], FALSE)

(***************************************************************************)
(* RateLimiter.allow() called at clock reading t                           *)
(***************************************************************************)
\* this.ratePerHour / (60 * 60 * 1000), for each rate the model uses
perMs == [c \in 1..MaxRatePerHour |-> Quotient(c, MsPerHour)]

\* this.allowance after line 15, before the test of line 17
Refill(a, last, rate, t) ==
  LET sum == Plus(a, Times(t - last, perMs[rate]))
  IN \* Math.min(this.ratePerHour, sum)
     IF Less(sum, FromInt(rate)) THEN sum ELSE FromInt(rate)

Refilled(t) == Refill(allowance, lastCheck, ratePerHour, t)

\* the value allow() returns, refilled being this.allowance after line 15
allowReturns(refilled) == ~Less(refilled, FromInt(1))

\* the test of performRequest: this.limiter && !this.limiter.allow()
limiterDeniesNever(refilled) == FALSE
limiterDenies(refilled) == ratePerHour > 0 /\ ~allowReturns(refilled)

\* the fields allow() leaves behind when called at clock reading t
allowDropsRefillOnDenial(t, refilled) ==
  /\ lastCheck' = t
  /\ allowance' = IF allowReturns(refilled) THEN MinusOne(refilled) ELSE allowance
allow(t, refilled) ==
  /\ lastCheck' = t
  /\ allowance' = IF allowReturns(refilled) THEN MinusOne(refilled) ELSE refilled

(***************************************************************************)
(* Observation of a run: counters the program does not keep                *)
(***************************************************************************)
ObsNewCall(o) ==
  [o EXCEPT !.requests = @ + 1, !.callPerformed = 0, !.callNet = 0,
            !.callDenied = 0, !.callRetryable = 0, !.callBackoffs = 0,
            !.callFailed = 0, !.callFailedRetryable = 0,
            !.thrown = NoError, !.answered = NoResult]

ObsThrown(o, err) ==
  [o EXCEPT !.thrown = err,
            !.callFailed = @ + 1,
            !.callFailedRetryable =
               IF err.status = 429 \/ err.status \in 500..599 THEN @ + 1 ELSE @]

(***************************************************************************)
(* HttpClient.request                                                      *)
(***************************************************************************)
\* the catch block of the retry loop, entered with err after attempt att,
\* and the throw after the loop when the loop is left
CatchKeepsFirstError(err, att) ==
  LET kept == IF lastError = NoError \/ att = 1 THEN err ELSE lastError
  IN /\ lastError' = kept
     /\ IF ~isRetryable(extractStatus(err)) \/ att >= maxRetries
          THEN /\ pc' = "rejected"
               /\ result' = Rejected(kept)
               /\ backoffMs' = 0
          ELSE /\ pc' = "backoff"
               /\ backoffMs' = retryBaseMs * Pow2(att - 1)
               /\ result' = result
Catch(err, att) ==
  LET status == extractStatus(err)
      retryable == isRetryable(status)
  IN /\ lastError' = err
     /\ IF ~retryable \/ att >= maxRetries
          THEN /\ pc' = "rejected"
               /\ result' = Rejected(err)
               /\ backoffMs' = 0
          ELSE /\ pc' = "backoff"
               /\ backoffMs' = retryBaseMs * Pow2(att - 1)
               /\ result' = result

\* one turn of the loop at clock reading t: attempt becomes att, then
\* performRequest runs up to its first await (the fetch call)
PerformRequest(att, t, le, o) ==
  LET limited == ratePerHour > 0
      refilled == Refilled(t)
      denied == limiterDenies(refilled)
      o1 == [o EXCEPT !.performed = @ + 1, !.callPerformed = @ + 1,
                      !.allowCalls = IF limited THEN @ + 1 ELSE @,
                      !.allowTrue = IF limited /\ allowReturns(refilled)
                                      THEN @ + 1 ELSE @]
  IN /\ attempt' = att
     /\ IF limited THEN allow(t, refilled) ELSE UNCHANGED <<allowance, lastCheck>>
     /\ IF denied
          THEN /\ Catch(RateLimitExceeded, att)
               /\ obs' = [ObsThrown(o1, RateLimitExceeded) EXCEPT !.callDenied = @ + 1]
          ELSE /\ pc' = "fetching"
               /\ lastError' = le
               /\ UNCHANGED <<result, backoffMs>>
               /\ obs' = [o1 EXCEPT !.netCalls = @ + 1, !.callNet = @ + 1]

\* request(options) from its entry to its first await
request(timeout, o) ==
  /\ callTimeout' = timeout
  /\ IF 0 < maxRetries
       THEN PerformRequest(1, now, NoError, ObsNewCall(o))
       ELSE /\ attempt' = 0
            /\ lastError' = NoError
            /\ pc' = "rejected"
            /\ result' = Rejected(ErrorOfUndefined)
            /\ backoffMs' = 0
            /\ obs' = ObsNewCall(o)
            /\ UNCHANGED <<allowance, lastCheck>>

Settled == pc \in {"idle", "resolved", "rejected"}

\* a tool other than queryDataset calls client.request
Request(timeout) ==
  /\ Settled
  /\ obs.requests < MaxRequests
  /\ request(timeout, obs)
  /\ UNCHANGED <<now, ratePerHour, maxRetries, retryBaseMs, qInput, qOutcome>>
  /\ UNCHANGED <<cacheVars, toolVars>>

\* the server answers the fetch in flight
Respond(status, data) ==
  /\ pc = "fetching"
  /\ IF ResOk(status)
       THEN /\ pc' = "resolved"
            /\ result' = Resolved(status, data)
            /\ UNCHANGED <<lastError, backoffMs>>
            /\ obs' = [obs EXCEPT !.answered = Resolved(status, data)]
       ELSE /\ Catch(HttpError(status, data, "body"), attempt)
            /\ obs' = [ObsThrown(obs, HttpError(status, data, "body")) EXCEPT
                         !.answered = Resolved(status, data),
                         !.callRetryable = IF status = 429 \/ status \in 500..599
                                             THEN @ + 1 ELSE @]
  /\ UNCHANGED <<now, ratePerHour, maxRetries, retryBaseMs, allowance, lastCheck,
                 attempt, callTimeout, qInput, qOutcome>>
  /\ UNCHANGED <<cacheVars, toolVars>>

\* the fetch in flight fails without a response
FetchFails ==
  /\ pc = "fetching"
  /\ Catch(FetchFailed, attempt)
  /\ obs' = ObsThrown(obs, FetchFailed)
  /\ UNCHANGED <<now, ratePerHour, maxRetries, retryBaseMs, allowance, lastCheck,
                 attempt, callTimeout, qInput, qOutcome>>
  /\ UNCHANGED <<cacheVars, toolVars>>

\* the timer of the attempt fires: controller.abort(), fetch rejects
Timeout ==
  /\ pc = "fetching"
  \* after options.timeoutMs ?? this.timeoutMs
  /\ now' = now + (IF callTimeout # NoTimeout THEN callTimeout ELSE DEFAULT_TIMEOUT_MS)
  /\ Catch(AbortError, attempt)
  /\ obs' = ObsThrown(obs, AbortError)
  /\ UNCHANGED <<ratePerHour, maxRetries, retryBaseMs, allowance, lastCheck,
                 attempt, callTimeout, qInput, qOutcome>>
  /\ UNCHANGED <<cacheVars, toolVars>>

\* the backoff timer fires and the loop goes round
BackoffDone ==
  /\ pc = "backoff"
  /\ now' = now + backoffMs
  /\ IF attempt < maxRetries
       THEN PerformRequest(attempt + 1, now + backoffMs, lastError,
                           [obs EXCEPT !.callBackoffs = @ + 1])
       ELSE /\ pc' = "rejected"
            /\ result' = Rejected(lastError)
            /\ obs' = [obs EXCEPT !.callBackoffs = @ + 1]
            /\ UNCHANGED <<attempt, lastError, backoffMs, allowance, lastCheck>>
  /\ UNCHANGED <<ratePerHour, maxRetries, retryBaseMs, callTimeout, qInput, qOutcome>>
  /\ UNCHANGED <<cacheVars, toolVars>>

\* time passes while no call is in progress
WaitSteps == {MsPerHour \div 2, MsPerHour}
Wait(d) ==
  /\ Settled
  /\ obs.waits < MaxWaits
  /\ now' = now + d
  /\ obs' = [obs EXCEPT !.waits = @ + 1]
  /\ UNCHANGED <<ratePerHour, maxRetries, retryBaseMs, allowance, lastCheck,
                 pc, attempt, lastError, backoffMs, callTimeout, result,
                 qInput, qOutcome>>
  /\ UNCHANGED <<cacheVars, toolVars>>

(***************************************************************************)
(* queryDataset                                                            *)
(***************************************************************************)
\* queryDataset(client, QueryInputs[i]): the builder runs, and throws or
\* not, before client.request is reached
QueryDatasetRequestsFirst(i) ==
  /\ Settled
  /\ obs.queries < MaxQueries
  /\ qInput' = i
  /\ qOutcome' = IF QueryVerdicts[i] THEN "threw" ELSE "requested"
  /\ request(NoTimeout, [obs EXCEPT !.queries = @ + 1])
  /\ UNCHANGED <<now, ratePerHour, maxRetries, retryBaseMs>>
  /\ UNCHANGED <<cacheVars, toolVars>>
QueryDataset(i) ==
  /\ Settled
  /\ obs.queries < MaxQueries
  /\ qInput' = i
  /\ IF QueryVerdicts[i]
       THEN /\ qOutcome' = "threw"
            /\ obs' = [obs EXCEPT !.queries = @ + 1]
            /\ UNCHANGED <<allowance, lastCheck, pc, attempt, lastError, backoffMs,
                           callTimeout, result>>
       ELSE /\ qOutcome' = "requested"
            /\ request(NoTimeout, [obs EXCEPT !.queries = @ + 1])
  /\ UNCHANGED <<now, ratePerHour, maxRetries, retryBaseMs>>
  /\ UNCHANGED <<cacheVars, toolVars>>

(***************************************************************************)
(* LruCache                                                                *)
(***************************************************************************)
\* null, for ttlMs and expiresAt
NoTtl == 0 - 1
Keys == {"A", "B", "C"}
Values == {"v1", "v2"}

CacheEntry(key, value, expiresAt) ==
  [key |-> key, value |-> value, expiresAt |-> expiresAt]

\* Map.prototype: the index of key in insertion order (0 = absent), the keys,
\* delete
IndexOf(m, key) ==
  IF \E i \in 1..Len(m) : m[i].key = key
    THEN CHOOSE i \in 1..Len(m) : m[i].key = key
    ELSE 0
KeysOf(m) == {m[i].key : i \in 1..Len(m)}
MapDelete(m, key) ==
  LET idx == IndexOf(m, key)
  IN IF idx = 0 THEN m ELSE SubSeq(m, 1, idx - 1) \o SubSeq(m, idx + 1, Len(m))

\* the order of use a run has seen: key moves to the most recent end
Touch(order, key) ==
  LET RECURSIVE Without(_)
      Without(q) == IF q = <<>> THEN <<>>
                    ELSE IF Head(q) = key THEN Without(Tail(q))
                    ELSE <<Head(q)>> \o Without(Tail(q))
  IN Append(Without(order), key)

\* get(key): the map it leaves, and the value it returns
getExpiredAtExpiry(entry) == entry.expiresAt # NoTtl /\ now >= entry.expiresAt
getExpired(entry) == entry.expiresAt # NoTtl /\ now > entry.expiresAt
getMapWithoutPromotion(key) ==
  LET idx == IndexOf(map, key)
  IN IF idx = 0 THEN map
     ELSE IF getExpired(map[idx]) THEN MapDelete(map, key)
     ELSE map
getMap(key) ==
  LET idx == IndexOf(map, key)
  IN IF idx = 0 THEN map
     ELSE IF getExpired(map[idx]) THEN MapDelete(map, key)
     ELSE Append(MapDelete(map, key), map[idx])
getReturns(key) ==
  LET idx == IndexOf(map, key)
  IN IF idx = 0 \/ getExpired(map[idx]) THEN "undefined" ELSE map[idx].value

Get(key) ==
  /\ cobs.ops < MaxCacheOps
  /\ map' = getMap(key)
  /\ cobs' = [cobs EXCEPT !.ops = @ + 1, !.op = "get", !.key = key,
                          !.ret = getReturns(key),
                          !.used = IF getReturns(key) # "undefined"
                                     THEN Touch(@, key) ELSE @]
  /\ UNCHANGED <<capacity, ttlMs, now>>
  /\ UNCHANGED <<httpVars, toolVars>>

\* set(key, value): the map it leaves
setMapEvictsAtCapacity(key, value) ==
  LET entry == CacheEntry(key, value, IF ttlMs # NoTtl THEN now + ttlMs ELSE NoTtl)
      inserted == Append(MapDelete(map, key), entry)
  IN IF Len(inserted) >= capacity THEN Tail(inserted) ELSE inserted
setMap(key, value) ==
  LET entry == CacheEntry(key, value, IF ttlMs # NoTtl THEN now + ttlMs ELSE NoTtl)
      inserted == Append(MapDelete(map, key), entry)
  IN IF Len(inserted) > capacity THEN Tail(inserted) ELSE inserted

Set(key, value) ==
  /\ cobs.ops < MaxCacheOps
  /\ map' = setMap(key, value)
  /\ cobs' = [cobs EXCEPT !.ops = @ + 1, !.op = "set", !.key = key,
                          !.ret = "undefined",
                          !.used = Touch(@, key),
                          !.setSeq = Touch(@, key),
                          !.setAt[key] = now,
                          !.setValue[key] = value]
  /\ UNCHANGED <<capacity, ttlMs, now>>
  /\ UNCHANGED <<httpVars, toolVars>>

Clear ==
  /\ cobs.ops < MaxCacheOps
  /\ map' = <<>>
  /\ cobs' = [cobs EXCEPT !.ops = @ + 1, !.op = "clear", !.key = "",
                          !.ret = "undefined"]
  /\ UNCHANGED <<capacity, ttlMs, now>>
  /\ UNCHANGED <<httpVars, toolVars>>

Tick(d) ==
  /\ cobs.ticks < MaxTicks
  /\ now' = now + d
  /\ cobs' = [cobs EXCEPT !.ticks = @ + 1, !.op = "tick", !.key = ""]
  /\ UNCHANGED <<capacity, ttlMs, map>>
  /\ UNCHANGED <<httpVars, toolVars>>

(***************************************************************************)
(* A RateLimiter called on its own                                         *)
(***************************************************************************)
\* limiter.allow()
Allow ==
  /\ lim.calls < MaxAllowCalls
  /\ allow(now, Refilled(now))
  /\ lim' = [lim EXCEPT !.calls = @ + 1,
                        !.returns = Append(@, allowReturns(Refilled(now)))]
  /\ UNCHANGED <<now, ratePerHour, maxRetries, retryBaseMs, pc, attempt, lastError,
                 backoffMs, callTimeout, result, qInput, qOutcome, obs>>
  /\ UNCHANGED <<cacheVars, meta, auth, paging, soql, enrich, reg>>

\* one refill interval, 3600000 / ratePerHour ms, in whole ms and not less
RefillInterval == (MsPerHour + ratePerHour - 1) \div ratePerHour

\* time passes between two allow() calls: a refill interval or half of one
LimiterWait(d) ==
  /\ lim.waits < MaxLimiterWaits
  /\ now' = now + d
  /\ lim' = [lim EXCEPT !.waits = @ + 1]
  /\ UNCHANGED <<ratePerHour, maxRetries, retryBaseMs, allowance, lastCheck,
                 pc, attempt, lastError, backoffMs, callTimeout, result,
                 qInput, qOutcome, obs>>
  /\ UNCHANGED <<cacheVars, meta, auth, paging, soql, enrich, reg>>

(***************************************************************************)
(* getMetadata and its module-level cache                                  *)
(***************************************************************************)
\* 5 * 60 * 1000
DEFAULT_CACHE_TTL_MS == 300000
\* new LruCache<string, unknown>(100, normalizedTtl)
METADATA_CACHE_CAPACITY == 100

\* The module state is metadataCache and currentTtlMs. The LruCache that
\* metadataCache refers to is held in capacity, ttlMs and map; gen counts
\* the LruCache objects created, 0 meaning metadataCache is null. A call
\* keeps in gen the object that getCache returned to it.

\* a getMetadata call; state: "awaiting" client.request, "returned" or "threw"; issued: the call
\* has called client.request; ret: what it returned; at: when it settled
MetaCall(domain, uid, ttl, override, state, gen, issued, ret, at) ==
  [domain |-> domain, uid |-> uid, ttl |-> ttl, override |-> override, state |-> state,
   gen |-> gen, issued |-> issued, ret |-> ret, at |-> at]

\* `${input.domain}:${input.uid}`
cacheKey(domain, uid) == domain \o ":" \o uid

\* normalizedTtl of getCache
normalizedTtl(ttl) == IF ttl # NoTtl /\ ttl > 0 THEN ttl ELSE DEFAULT_CACHE_TTL_MS

\* getCache creates a new LruCache
createsCache(ttl) == meta.gen = 0 \/ normalizedTtl(ttl) # meta.currentTtlMs

\* the call goes on to client.request: `if (cached) return cached` did not
\* return. inFlight: a call for the same key is awaiting its response
issuesRequestUnlessInFlight(cached, inFlight) == cached = "undefined" /\ ~inFlight
issuesRequest(cached, inFlight) == cached = "undefined"

\* getMetadata(client, {domain, uid, ...}, {cacheTtlMs: ttl}) up to its await;
\* override is authFromInput(input), the authOverride of its client.request
GetMetadata(domain, uid, ttl, override) ==
  LET key == cacheKey(domain, uid)
      created == createsCache(ttl)
      gen == IF created THEN meta.gen + 1 ELSE meta.gen
      cached == IF created THEN "undefined" ELSE getReturns(key)
      inFlight == \E i \in 1..Len(meta.calls) :
                    /\ meta.calls[i].state = "awaiting"
                    /\ cacheKey(meta.calls[i].domain, meta.calls[i].uid) = key
      issues == issuesRequest(cached, inFlight)
      call == IF cached # "undefined"
                THEN MetaCall(domain, uid, ttl, override, "returned", gen, FALSE, cached,
                              now)
                ELSE MetaCall(domain, uid, ttl, override, "awaiting", gen, issues,
                              "undefined", NoStatus)
  IN /\ Len(meta.calls) < MaxMetaCalls
     /\ capacity' = METADATA_CACHE_CAPACITY
     /\ ttlMs' = normalizedTtl(ttl)
     /\ map' = IF created THEN <<>> ELSE getMap(key)
     /\ meta' = [meta EXCEPT !.gen = gen,
                             !.currentTtlMs = normalizedTtl(ttl),
                             !.calls = Append(@, call),
                             !.net = IF issues THEN @ + 1 ELSE @]
     /\ UNCHANGED <<now, cobs, lim, auth, paging, soql, enrich, reg>>
     /\ UNCHANGED httpVars

\* client.request of call i resolves: cache.set(cacheKey, response) on the
\* LruCache the call holds, which is no longer metadataCache if a later call
\* made getCache create another
MetaResolve(i) ==
  LET call == meta.calls[i]
      \* the response objects client.request resolves with, in order
      response == <<"r1", "r2", "r3", "r4", "r5">>[meta.resolved + 1]
  IN /\ i \in 1..Len(meta.calls)
     /\ call.state = "awaiting"
     /\ map' = IF call.gen = meta.gen
                 THEN setMap(cacheKey(call.domain, call.uid), response)
                 ELSE map
     /\ meta' = [meta EXCEPT !.resolved = @ + 1,
                             !.carried = Append(@, call.override),
                             !.calls[i].state = "returned",
                             !.calls[i].ret = response,
                             !.calls[i].at = now]
     /\ UNCHANGED <<now, capacity, ttlMs, cobs, lim, auth, paging, soql, enrich, reg>>
     /\ UNCHANGED httpVars

\* client.request of call i rejects: getMetadata throws, nothing is stored
MetaReject(i) ==
  /\ i \in 1..Len(meta.calls)
  /\ meta.calls[i].state = "awaiting"
  /\ meta' = [meta EXCEPT !.calls[i].state = "threw", !.calls[i].at = now]
  /\ UNCHANGED <<now, capacity, ttlMs, map, cobs, lim, auth, paging, soql, enrich, reg>>
  /\ UNCHANGED httpVars

MetaTick(d) ==
  /\ meta.ticks < MaxMetaTicks
  /\ now' = now + d
  /\ meta' = [meta EXCEPT !.ticks = @ + 1]
  /\ UNCHANGED <<capacity, ttlMs, map, cobs, lim, auth, paging, soql, enrich, reg>>
  /\ UNCHANGED httpVars

(***************************************************************************)
(* HttpClient.attachAuth                                                   *)
(***************************************************************************)
\* Buffer.from(s).toString('base64'), of printable ASCII characters
Base64(s) ==
  LET \* the characters of codes 32 to 95, and of codes 97 to 126
      AsciiLow == " !\"#$%&'()*+,-./0123456789:;<=>?@ABCDEFGHIJKLMNOPQRSTUVWXYZ[\\]^_"
      AsciiHigh == "abcdefghijklmnopqrstuvwxyz{|}~"
      \* the byte Buffer.from(c) holds for one of them
      ByteOf(c) ==
        IF \E i \in 1..Len(AsciiLow) : Ch(AsciiLow, i) = c
        THEN 31 + CHOOSE i \in 1..Len(AsciiLow) : Ch(AsciiLow, i) = c
        ELSE 96 + CHOOSE i \in 1..Len(AsciiHigh) : Ch(AsciiHigh, i) = c
      Base64Digit(n) == Ch(UpperSeq \o LowerSeq \o DigitSeq \o "+/", n + 1)
      RECURSIVE Encode(_)
      Encode(t) ==
        IF t = "" THEN ""
        ELSE IF Len(t) = 1
          THEN LET n == ByteOf(Ch(t, 1)) * 16
               IN Base64Digit(n \div 64) \o Base64Digit(n % 64) \o "=="
        ELSE IF Len(t) = 2
          THEN LET n == (ByteOf(Ch(t, 1)) * 256 + ByteOf(Ch(t, 2))) * 4
               IN Base64Digit(n \div 4096) \o Base64Digit((n \div 64) % 64)
                    \o Base64Digit(n % 64) \o "="
        ELSE LET n == ByteOf(Ch(t, 1)) * 65536 + ByteOf(Ch(t, 2)) * 256
                        + ByteOf(Ch(t, 3))
             IN Base64Digit(n \div 262144) \o Base64Digit((n \div 4096) % 64)
                  \o Base64Digit((n \div 64) % 64) \o Base64Digit(n % 64)
                  \o Encode(SubSeq(t, 4, Len(t)))
  IN Encode(s)

\* a DomainConfig['auth']; a credential that is absent is ""
Auth(mode, appToken, username, password, bearerToken) ==
  [mode |-> mode, appToken |-> appToken, username |-> username,
   password |-> password, bearerToken |-> bearerToken]
\* options.authOverride absent
NoOverride == Auth("undefined", "", "", "", "")

\* authFromInput(input) of the tools; an absent field of the input is ""
authFromInput(input) ==
  IF input.appToken # "" THEN Auth("appToken", input.appToken, "", "", "")
  ELSE IF input.username # "" /\ input.password # ""
    THEN Auth("basic", "", input.username, input.password, "")
  ELSE IF input.bearerToken # "" THEN Auth("oauth2", "", "", "", input.bearerToken)
  ELSE NoOverride

\* the headers of a call; a header that is absent is ""
Headers(xAppToken, authorization) ==
  [Accept |-> "application/json", XAppToken |-> xAppToken,
   Authorization |-> authorization]

\* const auth = override ?? this.domain.auth
authSourceMerged(domainAuth, override) ==
  IF override = NoOverride THEN domainAuth
  ELSE [f \in DOMAIN override |->
          IF override[f] # "" THEN override[f] ELSE domainAuth[f]]
authSource(domainAuth, override) ==
  IF override = NoOverride THEN domainAuth ELSE override

\* the headers performRequest sends for a call without options.headers
attachAuth(domainAuth, override) ==
  LET a == authSource(domainAuth, override)
  IN IF a.mode = "appToken" /\ a.appToken # ""
       THEN Headers(a.appToken, "")
     ELSE IF a.mode = "basic" /\ a.username # "" /\ a.password # ""
       THEN Headers("", "Basic " \o Base64(a.username \o ":" \o a.password))
     ELSE IF a.mode = "oauth2" /\ a.bearerToken # ""
       THEN Headers("", "Bearer " \o a.bearerToken)
     ELSE Headers("", "")

\* the auth settings of a domain, and the overrides of a call
DomainAuths ==
  {Auth("none", "", "", "", ""),
   Auth("appToken", "token123", "", "", ""),
   Auth("appToken", "", "", "", ""),
   Auth("basic", "", "user", "pass", ""),
   Auth("basic", "", "user", "", ""),
   Auth("oauth2", "", "", "", "token123"),
   Auth("oauth2", "", "", "", "")}
Overrides ==
  {NoOverride,
   Auth("none", "", "", "", ""),
   Auth("appToken", "A", "", "", ""),
   Auth("appToken", "", "", "", ""),
   Auth("basic", "", "u", "p", ""),
   Auth("basic", "", "u", "", ""),
   Auth("oauth2", "", "", "", "T"),
   Auth("oauth2", "", "", "", "")}

\* a call of the client with options.authOverride = override
AttachAuth(override) ==
  /\ auth.calls < MaxAuthCalls
  /\ auth' = [auth EXCEPT !.calls = @ + 1,
                          !.override = override,
                          !.headers = attachAuth(auth.domain, override)]
  /\ UNCHANGED <<now, cobs, lim, meta, paging, soql, enrich, reg, capacity, ttlMs, map>>
  /\ UNCHANGED httpVars

(***************************************************************************)
(* The paging of queryDataset and previewDataset                           *)
(***************************************************************************)
\* the latest call of a tool: its paging input and what it gave to
\* client.request; a parameter that is not sent is Undefined
\* input is the index in QueryInputs of the clauses of a queryDataset call
\* (0 for previewDataset), query the text sent as $query ("" when none is)
PagingCall(tool, input, limit, offset, rejected, sentLimit, sentOffset, via, query) ==
  [tool |-> tool, input |-> input, limit |-> limit, offset |-> offset,
   rejected |-> rejected, sentLimit |-> sentLimit, sentOffset |-> sentOffset,
   via |-> via, query |-> query]
\* queryDataset(client, input) with input.limit, input.offset and the
\* clauses of QueryInputs[i]; the paging goes out as $limit and $offset, or
\* inside $query as the LIMIT and OFFSET that buildSoqlQuery renders
QueryPaging(limit, offset, i) ==
  LET safeLimit == clampLimit(limit, DEFAULT_DEFAULT_LIMIT)
      safeOffset == clampOffset(offset)
      throws == QueryVerdicts[i]
  IN /\ paging.calls < MaxPagingCalls
     /\ paging' = [calls |-> paging.calls + 1,
                   last |-> IF throws
                     THEN PagingCall("queryDataset", i, limit, offset, TRUE,
                                     Undefined, Undefined, "", "")
                     ELSE IF hasStructured(QueryInputs[i])
                     THEN PagingCall("queryDataset", i, limit, offset, FALSE,
                                     safeLimit, safeOffset, "$query",
                                     QueryTexts[i][safeLimit, safeOffset])
                     ELSE PagingCall("queryDataset", i, limit, offset, FALSE,
                                     safeLimit, safeOffset, "$limit", "")]
     /\ UNCHANGED <<now, cobs, lim, meta, auth, soql, enrich, reg, capacity, ttlMs, map>>
     /\ UNCHANGED httpVars

\* previewDataset(client, input) with input.limit; query: { $limit: limit }
PreviewPaging(limit) ==
  /\ paging.calls < MaxPagingCalls
  /\ paging' = [calls |-> paging.calls + 1,
                last |-> PagingCall("previewDataset", 0, limit, Undefined, FALSE,
                                    clampLimit(limit, DEFAULT_PREVIEW_LIMIT),
                                    Undefined, "$limit", "")]
  /\ UNCHANGED <<now, cobs, lim, meta, auth, soql, enrich, reg, capacity, ttlMs, map>>
  /\ UNCHANGED httpVars


(***************************************************************************)
(* listDatasets and its enrichment of the catalog results                  *)
(***************************************************************************)
MAX_CONCURRENT_ENRICHMENTS == 5

\* search.data.results of n entries, each the resource.id of the entry, 0
\* for an entry without one
Catalog(n) == [i \in 1..n |-> IF i % 4 = 2 THEN 0 ELSE ((i * 5) % 9) + 1]

\* the two requests of every entry from index first on are started at once
startAllRemaining(requests, first) ==
  [e \in 1..Len(requests) |->
     IF e >= first THEN [meta |-> "flying", rows |-> "flying"] ELSE requests[e]]
\* batch.map((entry) => enrichDataset(client, entry, authOverride)) for the
\* batch entries.slice(i, i + concurrency), first being i + 1: the two
\* requests of each of its entries are started
startBatch(requests, first) ==
  [e \in 1..Len(requests) |->
     IF e \in first..(first + MAX_CONCURRENT_ENRICHMENTS - 1)
       THEN [meta |-> "flying", rows |-> "flying"] ELSE requests[e]]

\* listDatasets(client, input) up to the await of the catalog search, which
\* will be answered with n entries
ListDatasets(n) ==
  /\ enrich.state = "idle"
  /\ enrich' = [enrich EXCEPT !.state = "searching", !.catalog = Catalog(n)]
  /\ UNCHANGED <<now, cobs, lim, meta, auth, paging, soql, reg, capacity, ttlMs, map>>
  /\ UNCHANGED httpVars

\* the catalog search settles: listDatasets throws, or filters the entries
\* that have a resource.id and enters enrichDatasetsParallel, which starts
\* the first batch or, without entries, returns at once
SearchSettles(ok) ==
  LET RECURSIVE WithId(_)
      WithId(results) ==
        IF Len(results) = 0 THEN <<>>
        ELSE (IF Head(results) # 0 THEN <<Head(results)>> ELSE <<>>)
               \o WithId(Tail(results))
      entries == WithId(enrich.catalog)
      unissued == [e \in 1..Len(entries) |-> [meta |-> "unissued", rows |-> "unissued"]]
  IN /\ enrich.state = "searching"
     /\ enrich' =
          IF ~ok THEN [enrich EXCEPT !.state = "threw"]
          ELSE IF Len(entries) = 0
            THEN [enrich EXCEPT !.state = "returned", !.datasets = <<>>]
          ELSE [enrich EXCEPT !.state = "enriching", !.entries = entries, !.i = 0,
                              !.requests = startBatch(unissued, 1)]
     /\ UNCHANGED <<now, cobs, lim, meta, auth, paging, soql, reg, capacity, ttlMs, map>>
     /\ UNCHANGED httpVars

\* one request of entry e settles, kind being "meta" or "rows". A rejection
\* rejects the Promise.all of enrichDataset and the one of the batch:
\* listDatasets throws and starts nothing more. When the last request of the
\* batch resolves, the batch's datasets are pushed in the order of the
\* entries and the loop goes on with the next batch, or returns.
RequestSettles(e, kind, ok) ==
  LET requests == [enrich.requests EXCEPT ![e][kind] = IF ok THEN "ok" ELSE "failed"]
      last == enrich.i + MAX_CONCURRENT_ENRICHMENTS
      batch == {b \in 1..Len(requests) : enrich.i < b /\ b <= last}
      results == enrich.results \o [k \in 1..Cardinality(batch) |-> enrich.entries[enrich.i + k]]
  IN /\ e \in 1..Len(enrich.requests)
     /\ enrich.requests[e][kind] = "flying"
     /\ enrich' =
          IF enrich.state # "enriching" THEN [enrich EXCEPT !.requests = requests]
          ELSE IF ~ok THEN [enrich EXCEPT !.requests = requests, !.state = "threw"]
          ELSE IF \E b \in batch : requests[b] # [meta |-> "ok", rows |-> "ok"]
            THEN [enrich EXCEPT !.requests = requests]
          ELSE IF last < Len(requests)
            THEN [enrich EXCEPT !.requests = startBatch(requests, last + 1),
                                !.results = results, !.i = last]
          ELSE [enrich EXCEPT !.requests = requests, !.results = results, !.i = last,
                              !.state = "returned", !.datasets = results]
     /\ UNCHANGED <<now, cobs, lim, meta, auth, paging, soql, reg, capacity, ttlMs, map>>
     /\ UNCHANGED httpVars

(***************************************************************************)
(* The client registry (clients.ts): one HttpClient, and with it one       *)
(* RateLimiter, per normalized domain; the request() calls of several tool *)
(* calls run concurrently, each attempt of each of them being one          *)
(* performRequest() on the client of its domain.                           *)
(***************************************************************************)
\* config.domains, every one of them with limits.requestsPerHour = ratePerHour,
\* which is SODA_REQUESTS_PER_HOUR too
ConfiguredDomains == <<"A.org", "a.org ">>
\* input.domain of the tool calls
RequestedDomains == {"a.org", " A.Org ", "b.org"}

normalizeVerbatim(domain) == domain
normalize(domain) == toLowerCase(trim(domain))

\* createClientRegistry: clients.set(normalize(domain), new HttpClient(...)) for
\* every configured domain in order, a later one replacing an earlier one of
\* the same key; limiters[i] is the RateLimiter of the i-th HttpClient made
createClientRegistry(domains) ==
  [clients |->
     [key \in {normalize(domains[i]) : i \in DOMAIN domains} |->
        CHOOSE i \in DOMAIN domains :
          /\ normalize(domains[i]) = key
          /\ \A j \in DOMAIN domains : normalize(domains[j]) = key => j <= i],
   limiters |->
     [i \in DOMAIN domains |-> [allowance |-> FromInt(ratePerHour), lastCheck |-> now]]]

\* getClient(registry, domain): the client of the key, made and stored when
\* the key has none
getClient(registry, domain) ==
  LET key == normalize(domain)
      made == Len(registry.limiters) + 1
  IN IF key \in DOMAIN registry.clients
       THEN [client |-> registry.clients[key],
             clients |-> registry.clients,
             limiters |-> registry.limiters]
       ELSE [client |-> made,
             clients |-> [k \in DOMAIN registry.clients \cup {key} |->
                            IF k = key THEN made ELSE registry.clients[k]],
             limiters |-> Append(registry.limiters,
                                 [allowance |-> FromInt(ratePerHour), lastCheck |-> now])]

RegistryRequest(domain, client, state, attemptNo, due) ==
  [domain |-> domain,   \* input.domain of the tool call
   client |-> client,   \* the HttpClient getClient gave
   state |-> state,     \* "fetching" | "backoff" | "resolved" | "rejected"
   attempt |-> attemptNo,
   due |-> due]         \* when the backoff timer fires

\* one pass of the loop of request() up to its await: performRequest() asks
\* the limiter and either starts the network call or throws the client's own
\* 429, which is retryable
performAttempt(registry, r, req, limiters) ==
  LET limiter == limiters[req.client]
      refilled == Refill(limiter.allowance, limiter.lastCheck, ratePerHour, now)
      granted == allowReturns(refilled)
      attemptNo == req.attempt + 1
      after ==
        IF granted THEN [req EXCEPT !.attempt = attemptNo, !.state = "fetching"]
        ELSE IF attemptNo < maxRetries
          THEN [req EXCEPT !.attempt = attemptNo, !.state = "backoff",
                               !.due = now + retryBaseMs * 2 ^ (attemptNo - 1)]
        ELSE [req EXCEPT !.attempt = attemptNo, !.state = "rejected"]
  IN [registry EXCEPT
        !.limiters = [limiters EXCEPT ![req.client] =
                        [allowance |-> IF granted THEN MinusOne(refilled) ELSE refilled,
                         lastCheck |-> now]],
        !.requests = IF r > Len(@) THEN Append(@, after) ELSE [@ EXCEPT ![r] = after],
        !.log = Append(@, [domain |-> req.domain, at |-> now, granted |-> granted])]

\* a tool call: getClient(registry, input.domain), then client.request(...)
\* up to its first await
RegistryCall(domain) ==
  LET got == getClient(reg, domain)
      r == Len(reg.requests) + 1
  IN /\ reg.calls < MaxRegistryCalls
     /\ reg' = performAttempt([reg EXCEPT !.calls = @ + 1, !.clients = got.clients],
                              r, RegistryRequest(domain, got.client, "new", 0, 0),
                              got.limiters)
     /\ UNCHANGED <<now, cobs, lim, meta, auth, paging, soql, enrich, capacity, ttlMs, map>>
     /\ UNCHANGED httpVars

\* the network call of request r settles with a status
RegistryRespond(r, status) ==
  /\ r \in DOMAIN reg.requests
  /\ reg.requests[r].state = "fetching"
  /\ reg' = [reg EXCEPT !.requests[r] =
       IF ResOk(status) THEN [@ EXCEPT !.state = "resolved"]
       ELSE IF isRetryable(status) /\ reg.requests[r].attempt < maxRetries
         THEN [@ EXCEPT !.state = "backoff",
                        !.due = now + retryBaseMs * 2 ^ (reg.requests[r].attempt - 1)]
       ELSE [@ EXCEPT !.state = "rejected"]]
  /\ UNCHANGED <<now, cobs, lim, meta, auth, paging, soql, enrich, capacity, ttlMs, map>>
  /\ UNCHANGED httpVars

\* the backoff timer of request r fires: the next pass of its loop
RegistryRetry(r) ==
  /\ r \in DOMAIN reg.requests
  /\ reg.requests[r].state = "backoff"
  /\ now >= reg.requests[r].due
  /\ reg' = performAttempt(reg, r, reg.requests[r], reg.limiters)
  /\ UNCHANGED <<now, cobs, lim, meta, auth, paging, soql, enrich, capacity, ttlMs, map>>
  /\ UNCHANGED httpVars

RegistryTick(ms) ==
  /\ reg.ticks < MaxRegistryTicks
  /\ now' = now + ms
  /\ reg' = [reg EXCEPT !.ticks = @ + 1]
  /\ UNCHANGED <<cobs, lim, meta, auth, paging, soql, enrich, capacity, ttlMs, map>>
  /\ UNCHANGED httpVars

(***************************************************************************)
(* Specifications                                                          *)
(***************************************************************************)
\* a client as its constructor leaves it, requestsPerHour being one of rates
\* and maxRetries one of retries, with no call in progress; obs holds
\* counters the program does not keep
ClientInit(rates, retries) ==
  /\ now = 0
  /\ ratePerHour \in rates
  /\ maxRetries \in retries
  /\ retryBaseMs = DEFAULT_RETRY_BASE_MS
  /\ allowance = FromInt(ratePerHour)
  /\ lastCheck = now
  /\ pc = "idle"
  /\ attempt = 0
  /\ lastError = NoError
  /\ backoffMs = 0
  /\ callTimeout = NoTimeout
  /\ result = NoResult
  /\ qInput = 0
  /\ qOutcome = "none"
  /\ obs =
       [requests |-> 0,      \* request() calls started on the client
        queries |-> 0,       \* queryDataset() calls made
        waits |-> 0,         \* idle waits taken
        performed |-> 0,     \* performRequest() calls of the client
        allowCalls |-> 0,    \* allow() calls of the client's limiter
        allowTrue |-> 0,     \* ... that returned true
        netCalls |-> 0,      \* fetch() calls of the client
        callPerformed |-> 0, \* performRequest() calls of the current request()
        callNet |-> 0,       \* fetch() calls of the current request()
        callDenied |-> 0,    \* limiter denials of the current request()
        callRetryable |-> 0, \* server answers 429/5xx to the current request()
        callBackoffs |-> 0,  \* backoff waits of the current request()
        callFailed |-> 0,    \* performRequest() calls of it that threw
        callFailedRetryable |-> 0, \* ... with an error of status 429 or 5xx
        thrown |-> NoError,  \* what the latest performRequest() threw
        answered |-> NoResult] \* the latest response the server gave

\* an LruCache as its constructor leaves it, with one of capacities and one
\* of ttls; capacity 0 and no ttl where no cache is in use
CacheNew(capacities, ttls) ==
  /\ capacity \in capacities
  /\ ttlMs \in ttls
  /\ map = <<>>
  /\ cobs =
       [ops |-> 0,                         \* set/get/clear calls made
        ticks |-> 0,                       \* clock steps taken
        op |-> "none",                     \* the latest call
        key |-> "",                        \* ... its key
        ret |-> "undefined",               \* ... what a get returned
        used |-> <<>>,                     \* keys by latest set or hit, oldest first
        setSeq |-> <<>>,                   \* keys by latest set, oldest first
        setAt |-> [k \in Keys |-> NoTtl],  \* clock reading of the latest set of k
        setValue |-> [k \in Keys |-> "undefined"]] \* value of the latest set of k

\* the tools and the functions called on their own, before any call; the
\* client's domain has one of the auth settings domains
ToolsInit(domains) ==
  /\ lim =
       [calls |-> 0,          \* allow() calls made
        waits |-> 0,          \* waits taken
        returns |-> <<>>]     \* what the allow() calls returned, in order
  /\ meta =
       [gen |-> 0,
        currentTtlMs |-> DEFAULT_CACHE_TTL_MS,
        calls |-> <<>>,   \* the getMetadata calls made, see MetaCall
        net |-> 0,        \* client.request calls made
        resolved |-> 0,   \* ... that resolved
        carried |-> <<>>, \* the authOverride of the request of each response
        ticks |-> 0]      \* clock steps taken
  /\ \E domain \in domains : auth =
       [calls |-> 0,                               \* calls made on the client
        domain |-> domain,                          \* this.domain.auth
        override |-> NoOverride,                   \* options.authOverride of the latest call
        headers |-> Headers("", "")]               \* the headers it gave to fetch
  /\ paging =
       [calls |-> 0,
        last |-> PagingCall("", 0, Undefined, Undefined, FALSE, Undefined, Undefined,
                            "", "")]
  /\ soql =
       [calls |-> 0,                      \* calls made
        params |-> NoParams,              \* the SoqlParams of the latest call
        query |-> Ok(""),                 \* what buildSoqlQuery gave for it
        map |-> [err |-> "", result |-> [k \in {} |-> ""]]]   \* and buildSoqlParams
  /\ enrich =
       [state |-> "idle",   \* "idle" | "searching" | "enriching" | "returned" | "threw"
        catalog |-> <<>>,   \* search.data.results
        entries |-> <<>>,   \* datasetEntries
        i |-> 0,            \* the loop variable of enrichDatasetsParallel
        requests |-> <<>>,  \* the two requests of each entry: "unissued" | "flying" | "ok" | "failed"
        results |-> <<>>,   \* results of enrichDatasetsParallel
        datasets |-> <<>>]  \* the datasets listDatasets returned
  /\ reg =
       [calls |-> 0,        \* tool calls made through the registry
        ticks |-> 0,        \* clock steps taken
        clients |-> createClientRegistry(ConfiguredDomains).clients,
        limiters |-> createClientRegistry(ConfiguredDomains).limiters,
        requests |-> <<>>,  \* the request() calls made, see RegistryRequest
        log |-> <<>>]       \* the allow() calls made: domain asked for, time, result

\* a client, called by tools through request()
Next ==
  \/ \E timeout \in {NoTimeout, CallTimeoutMs} : Request(timeout)
  \/ \E status \in Statuses, data \in Bodies : Respond(status, data)
  \/ FetchFails
  \/ Timeout
  \/ BackoffDone
  \/ \E d \in WaitSteps : Wait(d)

Init ==
  /\ ClientInit({0, 1, 2}, (0..MaxRetriesOption) \cup {DEFAULT_MAX_RETRIES})
  /\ CacheNew({0}, {NoTtl})
  /\ ToolsInit({Auth("none", "", "", "", "")})

Spec == Init /\ [][Next]_vars

\* a client with the default options, called through queryDataset
QueryNext ==
  \/ \E i \in 1..Len(QueryInputs) : QueryDataset(i)
  \/ \E status \in Statuses, data \in Bodies : Respond(status, data)
  \/ FetchFails
  \/ Timeout
  \/ BackoffDone
  \/ \E d \in WaitSteps : Wait(d)

QueryInit ==
  /\ ClientInit({0, 1, 2}, {DEFAULT_MAX_RETRIES})
  /\ CacheNew({0}, {NoTtl})
  /\ ToolsInit({Auth("none", "", "", "", "")})

QuerySpec == QueryInit /\ [][QueryNext]_vars

\* an LruCache called on its own
CacheNext ==
  \/ \E key \in Keys : Get(key)
  \/ \E key \in Keys, value \in Values : Set(key, value)
  \/ Clear
  \/ \E d \in {TickMs, 2 * TickMs} : Tick(d)

CacheInit ==
  /\ ClientInit({0}, {DEFAULT_MAX_RETRIES})
  /\ CacheNew(0..MaxCapacity, {NoTtl, CacheTtlMs})
  /\ ToolsInit({Auth("none", "", "", "", "")})

CacheSpec == CacheInit /\ [][CacheNext]_vars

\* a RateLimiter called on its own, from clock reading 0
LimiterNext ==
  \/ Allow
  \/ \E d \in {RefillInterval \div 2, RefillInterval, RefillInterval + 1} : LimiterWait(d)

LimiterInit ==
  /\ ClientInit(1..MaxRatePerHour, {DEFAULT_MAX_RETRIES})
  /\ CacheNew({0}, {NoTtl})
  /\ ToolsInit({Auth("none", "", "", "", "")})

LimiterSpec == LimiterInit /\ [][LimiterNext]_vars

\* getMetadata, from the module as loaded: metadataCache is null
MetadataNext ==
  \/ \E domain \in {"a", "b"}, uid \in {"c"}, ttl \in {NoTtl, CacheTtlMs} :
       GetMetadata(domain, uid, ttl, NoOverride)
  \/ \E i \in 1..MaxMetaCalls : MetaResolve(i)
  \/ \E i \in 1..MaxMetaCalls : MetaReject(i)
  \/ \E d \in {3 * TickMs, DEFAULT_CACHE_TTL_MS + TickMs} : MetaTick(d)

\* a tool, or a function, called on its own with a client of the defaults
ToolInit ==
  /\ ClientInit({0}, {DEFAULT_MAX_RETRIES})
  /\ CacheNew({0}, {NoTtl})
  /\ ToolsInit({Auth("none", "", "", "", "")})

MetadataSpec == ToolInit /\ [][MetadataNext]_vars

\* getMetadata called for one dataset by callers with and without
\* credentials of their own
CredentialNext ==
  \/ \E input \in {Auth("", "", "", "", ""), Auth("", "A", "", "", ""),
                   Auth("", "", "u", "p", ""), Auth("", "", "u", "", "T")} :
       GetMetadata("a", "c", NoTtl, authFromInput(input))
  \/ \E i \in 1..MaxMetaCalls : MetaResolve(i)
  \/ \E i \in 1..MaxMetaCalls : MetaReject(i)
  \/ MetaTick(DEFAULT_CACHE_TTL_MS + TickMs)

CredentialSpec == ToolInit /\ [][CredentialNext]_vars

\* attachAuth on a client of a domain with some auth setting
AuthNext == \E override \in Overrides : AttachAuth(override)

AuthSpecInit ==
  /\ ClientInit({0}, {DEFAULT_MAX_RETRIES})
  /\ CacheNew({0}, {NoTtl})
  /\ ToolsInit(DomainAuths)

AuthSpec == AuthSpecInit /\ [][AuthNext]_vars

\* the two tools called with paging values
PagingNext ==
  \/ \E limit \in PagingValues, offset \in PagingValues,
        i \in {i \in 1..Len(QueryInputs) : ~QueryVerdicts[i]} :
       QueryPaging(limit, offset, i)
  \/ \E limit \in PagingValues : PreviewPaging(limit)

PagingSpec == ToolInit /\ [][PagingNext]_vars

\* the builder called on its own
BuilderNext == \E call \in Compiled : Compile(call)

BuilderSpec == ToolInit /\ [][BuilderNext]_vars

\* one listDatasets call, its requests settling in any order
ListNext ==
  \/ \E n \in 0..MaxCatalog : ListDatasets(n)
  \/ \E ok \in BOOLEAN : SearchSettles(ok)
  \/ \E e \in 1..MaxCatalog, kind \in {"meta", "rows"}, ok \in BOOLEAN :
       RequestSettles(e, kind, ok)

ListSpec == ToolInit /\ [][ListNext]_vars

\* tool calls for several spellings of two domains through one registry, their
\* requests in flight together
RegistryInit ==
  /\ ClientInit({1, 2}, {2})
  /\ CacheNew({0}, {NoTtl})
  /\ ToolsInit({Auth("none", "", "", "", "")})

RegistryNext ==
  \/ \E domain \in RequestedDomains : RegistryCall(domain)
  \/ \E r \in 1..MaxRegistryCalls, status \in {200, 500} : RegistryRespond(r, status)
  \/ \E r \in 1..MaxRegistryCalls : RegistryRetry(r)
  \/ \E ms \in {retryBaseMs, MsPerHour \div ratePerHour} : RegistryTick(ms)

RegistrySpec == RegistryInit /\ [][RegistryNext]_vars

(***************************************************************************)
(* Properties                                                              *)
(***************************************************************************)
\* an error that carries status 429 or a status in [500,600)
CarriesRetryableStatus(err) ==
  err.status = 429 \/ (err.status >= 500 /\ err.status < 600)

\* C1: when the limiter denies an attempt of a request() call, the call is
\* rejected at once with the local rate-limit error: no backoff wait and no
\* further attempt follows the denial.
C1_DenialSurfacedAtOnce ==
  obs.callDenied > 0 =>
    /\ pc = "rejected"
    /\ result = Rejected(RateLimitExceeded)
    /\ obs.callBackoffs = obs.callPerformed - 1
    /\ obs.callDenied = 1

\* C2: an attempt that ran into its timeout is retried while attempts are
\* left: request() rejects with the abort error of a timed-out attempt only
\* once maxRetries attempts have been made, as for a 5xx answer.
C2_TimeoutRetriedWithinBudget ==
  (pc = "rejected" /\ result = Rejected(AbortError)) => attempt >= maxRetries

\* steps of one request() call: it makes a further attempt; an attempt fails
AnotherAttempt ==
  /\ obs'.requests = obs.requests
  /\ obs'.callPerformed = obs.callPerformed + 1
AttemptFails ==
  /\ obs'.requests = obs.requests
  /\ obs'.callFailed = obs.callFailed + 1

\* C3: a request() call never makes more than maxRetries attempts; a failed
\* attempt is followed by another one only if its error carries status 429
\* or 5xx and fewer than maxRetries attempts have been made; any other
\* failure rejects the call in the same step with that error.
C3_RetryPolicy ==
  /\ [](obs.callPerformed <= maxRetries /\ attempt = obs.callPerformed)
  /\ [][AnotherAttempt =>
          /\ CarriesRetryableStatus(obs.thrown)
          /\ obs.callPerformed < maxRetries
          /\ obs.callFailed = obs.callPerformed]_vars
  /\ [][AttemptFails =>
          IF CarriesRetryableStatus(obs'.thrown) /\ obs'.callPerformed < maxRetries
            THEN pc' = "backoff"
            ELSE pc' = "rejected" /\ result' = Rejected(obs'.thrown)]_vars
C3_Witness ==
  /\ maxRetries = DEFAULT_MAX_RETRIES
  /\ pc = "rejected"
  /\ obs.callPerformed = 2
  /\ obs.callNet = 2
  /\ obs.callRetryable = 1
  /\ obs.callBackoffs = 1
  /\ result = Rejected(HttpError(404, 1, "body"))

\* C4: with no limiter denial in the call, a call that resolved made exactly
\* one network attempt more than the retryable answers (429, 5xx) it got and
\* returns the latest answer of the server; and a call that got nothing but
\* retryable answers is not rejected before maxRetries network attempts.
C4_RetryThenSuccess ==
  obs.callDenied = 0 =>
    /\ pc = "resolved" =>
         /\ obs.callNet = obs.callRetryable + 1
         /\ obs.callRetryable < maxRetries
         /\ obs.callFailed = obs.callRetryable
         /\ result = obs.answered
         /\ ResOk(result.status)
    /\ (pc = "rejected" /\ maxRetries > 0 /\ obs.callFailed = obs.callRetryable) =>
         obs.callNet = maxRetries
C4_Witness ==
  /\ pc = "resolved"
  /\ obs.callDenied = 0
  /\ obs.callNet = 2
  /\ lastError = HttpError(429, 1, "body")
  /\ result = Resolved(200, 2)

\* C5: on a client that has a limiter, every performRequest() calls allow()
\* and the fetch calls made never outnumber the allow() calls that returned
\* true.
C5_NoCallWithoutToken ==
  ratePerHour > 0 =>
    /\ obs.allowCalls = obs.performed
    /\ obs.netCalls <= obs.allowTrue
    /\ obs.callPerformed = obs.callNet + obs.callDenied
C5_Witness ==
  /\ ratePerHour = 1
  /\ obs.callPerformed = 2
  /\ obs.callNet = 1
  /\ obs.callDenied = 1
  /\ obs.thrown = RateLimitExceeded
  /\ obs.allowCalls = 3
  /\ obs.allowTrue = 2
  /\ obs.netCalls = 2
  /\ pc = "fetching"

\* C6: when all maxRetries attempts of a call failed with a retryable status,
\* the call is rejected with the error the last attempt threw.
C6_LastErrorSurfaced ==
  (pc = "rejected" /\ maxRetries >= 1 /\ obs.callFailedRetryable = maxRetries) =>
    result = Rejected(obs.thrown)
C6_Witness ==
  /\ pc = "rejected"
  /\ maxRetries = DEFAULT_MAX_RETRIES
  /\ obs.callFailedRetryable = maxRetries
  /\ obs.callNet = maxRetries
  /\ obs.callBackoffs = maxRetries - 1
  /\ result = Rejected(HttpError(599, 2, "body"))

\* a step that is a queryDataset call
QueryStep == obs'.queries = obs.queries + 1

\* C7: a queryDataset call whose input the builder rejects issues no
\* request: no performRequest, no allow() call, no fetch, and the limiter's
\* allowance and lastCheck are as before.
C7_InvalidQuerySendsNothing ==
  [][(QueryStep /\ QueryVerdicts[qInput']) =>
        /\ qOutcome' = "threw"
        /\ obs'.requests = obs.requests
        /\ obs'.performed = obs.performed
        /\ obs'.allowCalls = obs.allowCalls
        /\ obs'.netCalls = obs.netCalls
        /\ allowance' = allowance
        /\ lastCheck' = lastCheck
        /\ pc' = pc]_vars
C7_Witness ==
  /\ qOutcome = "threw"
  /\ qInput = 7
  /\ obs.queries = 2
  /\ ratePerHour = 1
  /\ obs.allowCalls = 1
  /\ obs.netCalls = 1
  /\ allowance = FromInt(0)

\* a step that is a set call, and the keys it removed from the cache
SetStep == cobs'.ops = cobs.ops + 1 /\ cobs'.op = "set"
SetRemoved == (KeysOf(map) \cup {cobs'.key}) \ KeysOf(map')
\* a step that is a get call
GetStep == cobs'.ops = cobs.ops + 1 /\ cobs'.op = "get"
\* the place of key in an order of use
PosIn(order, key) == CHOOSE i \in 1..Len(order) : order[i] = key

\* C8: the cache never holds more than capacity entries (and no key twice);
\* a set that takes the number of keys above capacity removes exactly one
\* entry, any other set removes none, a set of a present key in particular.
C8_BoundedSize ==
  /\ [](Len(map) <= capacity /\ Cardinality(KeysOf(map)) = Len(map))
  /\ [][SetStep =>
          /\ Cardinality(KeysOf(map) \cup {cobs'.key}) > capacity
               => Cardinality(SetRemoved) = 1
          /\ Cardinality(KeysOf(map) \cup {cobs'.key}) <= capacity
               => SetRemoved = {}
          /\ cobs'.key \in KeysOf(map) => SetRemoved = {}
          /\ KeysOf(map') \subseteq KeysOf(map) \cup {cobs'.key}]_vars
C8_Witness ==
  /\ capacity = 2
  /\ cobs.ops = 4
  /\ cobs.op = "set"
  /\ cobs.key = "B"
  /\ cobs.setSeq = <<"A", "C", "B">>
  /\ KeysOf(map) = {"C", "B"}

\* C9: the entry a set evicts is the least recently used one, a set and a
\* get that hits both counting as a use: every key left in the cache was
\* used after the evicted key.
C9_EvictsLeastRecentlyUsed ==
  [][SetStep =>
        \A gone \in SetRemoved : \A kept \in KeysOf(map') :
          PosIn(cobs'.used, gone) < PosIn(cobs'.used, kept)]_vars
C9_Witness ==
  /\ capacity = 2
  /\ cobs.ops = 4
  /\ cobs.op = "set"
  /\ cobs.setSeq = <<"A", "B", "C">>
  /\ cobs.used = <<"B", "A", "C">>
  /\ KeysOf(map) = {"A", "C"}

\* C10: a get of a key the cache holds misses and removes the entry when the
\* cache has a TTL and the clock is past the time of the key's latest set
\* plus the TTL; otherwise (at or before that time, or no TTL) it returns the
\* value of the latest set and keeps the entry.
C10_ExpiryOnGet ==
  [][(GetStep /\ cobs'.key \in KeysOf(map)) =>
        IF ttlMs # NoTtl /\ now > cobs.setAt[cobs'.key] + ttlMs
          THEN cobs'.ret = "undefined" /\ cobs'.key \notin KeysOf(map')
          ELSE /\ cobs'.ret = cobs.setValue[cobs'.key]
               /\ cobs'.ret \in Values
               /\ cobs'.key \in KeysOf(map')]_vars
C10_Witness ==
  /\ ttlMs = CacheTtlMs
  /\ capacity >= 1
  /\ cobs.op = "get"
  /\ cobs.ret = "undefined"
  /\ cobs.setAt[cobs.key] = 0
  /\ now = 3 * TickMs
  /\ cobs.ops = 2
  /\ map = <<>>

\* a step that is the start of a getMetadata call, and that call
MetaCallStep == Len(meta'.calls) = Len(meta.calls) + 1
NewMetaCall == meta'.calls[Len(meta'.calls)]
\* a call for the same domain and uid is awaiting its response
InFlightFor(call) ==
  \E i \in 1..Len(meta.calls) :
    /\ meta.calls[i].state = "awaiting"
    /\ meta.calls[i].domain = call.domain
    /\ meta.calls[i].uid = call.uid
\* the earlier calls that fetched a response for the domain and uid of call
\* under the same TTL setting, the entry of which has not expired
FetchedFor(call) ==
  {i \in 1..Len(meta.calls) :
     /\ meta.calls[i].domain = call.domain
     /\ meta.calls[i].uid = call.uid
     /\ meta.calls[i].ttl = call.ttl
     /\ meta.calls[i].state = "returned"
     /\ meta.calls[i].issued
     /\ now <= meta.calls[i].at + normalizedTtl(call.ttl)}

\* C11: no single flight: a getMetadata call that starts while a call for
\* the same domain and uid is awaiting its response, nothing being stored
\* for the key, misses and issues a request of its own; every call that
\* awaits a response has issued its own request.
C11_NoSingleFlight ==
  /\ [](\A i \in 1..Len(meta.calls) :
          meta.calls[i].state = "awaiting" => meta.calls[i].issued)
  /\ [](meta.net = Cardinality({i \in 1..Len(meta.calls) : meta.calls[i].issued}))
  /\ [][(/\ MetaCallStep
         /\ InFlightFor(NewMetaCall)
         /\ \/ createsCache(NewMetaCall.ttl)
            \/ cacheKey(NewMetaCall.domain, NewMetaCall.uid) \notin KeysOf(map))
        => /\ NewMetaCall.state = "awaiting"
           /\ NewMetaCall.issued
           /\ meta'.net = meta.net + 1]_vars
C11_Witness ==
  /\ Len(meta.calls) = 2
  /\ meta.calls[1].state = "awaiting"
  /\ meta.calls[2].state = "awaiting"
  /\ meta.calls[1].domain = meta.calls[2].domain
  /\ meta.calls[1].uid = meta.calls[2].uid
  /\ meta.calls[1].ttl = meta.calls[2].ttl
  /\ meta.net = 2

\* C12: a getMetadata call made after a call for the same domain and uid,
\* under the same TTL setting, has fetched a response, and before that entry
\* expires, issues no request and returns the response fetched then; and a
\* call whose request fails leaves the cache as it was.
C12_CachedAfterSuccess ==
  /\ [][(MetaCallStep /\ FetchedFor(NewMetaCall) # {})
        => /\ NewMetaCall.state = "returned"
           /\ ~NewMetaCall.issued
           /\ meta'.net = meta.net
           /\ \E i \in FetchedFor(NewMetaCall) : NewMetaCall.ret = meta.calls[i].ret]_vars
  /\ [][(\E i \in 1..Len(meta.calls) :
           meta.calls[i].state = "awaiting" /\ meta'.calls[i].state = "threw")
        => map' = map]_vars

\* C13: a RateLimiter of capacity c created at time 0 returns true to its
\* first c allow() calls at time 0 and false to the next one at that time;
\* and when the latest allow() was a denial, an allow() made one refill
\* interval (3600000 / c ms) or more after it returns true.
C13_RefillAfterInterval ==
  /\ (lim.calls > 0 /\ now = 0) =>
       lim.returns[lim.calls] = (lim.calls <= ratePerHour)
  /\ (lim.calls > 0 /\ ~lim.returns[lim.calls] /\ now >= lastCheck + RefillInterval) =>
       allowReturns(Refilled(now))

\* the one source of the auth of the latest call: the override if the call
\* has one, the domain's setting otherwise
C14_Source == IF auth.override # NoOverride THEN auth.override ELSE auth.domain

\* C14: the auth headers of a call come from one source, the call's override
\* if it has one and the domain's setting otherwise, and are those of the
\* mode of that source only, made of its credentials: never both headers,
\* and nothing of the domain's setting when there is an override.
C14_OneAuthSource ==
  auth.calls > 0 =>
    /\ auth.headers.XAppToken = "" \/ auth.headers.Authorization = ""
    /\ auth.headers.XAppToken =
         (IF C14_Source.mode = "appToken" THEN C14_Source.appToken ELSE "")
    /\ auth.headers.Authorization =
         (IF C14_Source.mode = "basic" /\ C14_Source.username # ""
               /\ C14_Source.password # ""
            THEN "Basic " \o Base64(C14_Source.username \o ":" \o C14_Source.password)
          ELSE IF C14_Source.mode = "oauth2" /\ C14_Source.bearerToken # ""
            THEN "Bearer " \o C14_Source.bearerToken
          ELSE "")
C14_Witness ==
  /\ auth.calls = 2
  /\ auth.domain = Auth("basic", "", "user", "pass", "")
  /\ auth.override = Auth("oauth2", "", "", "", "T")
  /\ auth.headers = Headers("", "Bearer T")
  /\ Base64("user:pass") = "dXNlcjpwYXNz"

\* the limit a tool uses when the caller gives none
C15_DefaultLimit ==
  IF paging.last.tool = "previewDataset"
  THEN DEFAULT_PREVIEW_LIMIT ELSE DEFAULT_DEFAULT_LIMIT
\* what C15 says of the limit of a call
C15_LimitSent ==
  /\ ~paging.last.rejected
  /\ paging.last.sentLimit # Undefined
  /\ paging.last.sentLimit.n \in 1..DEFAULT_MAX_LIMIT
  /\ paging.last.limit = Undefined => paging.last.sentLimit = Num(C15_DefaultLimit)
\* what C15 says of the offset of a call
C15_OffsetSent ==
  /\ paging.last.sentOffset # Undefined
  /\ paging.last.sentOffset.n \in 0..DEFAULT_MAX_OFFSET
  /\ paging.last.offset = Undefined => paging.last.sentOffset = Num(0)

\* C15 as stated: whatever limit and offset the caller gives (any integer,
\* or none), queryDataset and previewDataset do not reject the call and
\* send a limit in [1, 5000] and an offset in [0, 50000]; no limit becomes
\* 500 in queryDataset and 50 in previewDataset, no offset becomes 0.
C15_PagingSent ==
  paging.calls > 0 => C15_LimitSent /\ C15_OffsetSent

\* C15, amended: whatever limit and offset the caller gives (any integer, or
\* none), the tools do not reject the call; both send a limit in [1, 5000],
\* 500 in queryDataset and 50 in previewDataset when the caller gives none;
\* queryDataset sends an offset in [0, 50000], 0 when the caller gives none,
\* and previewDataset takes no offset and sends none.
C15_PagingSentAmended ==
  paging.calls > 0 =>
    /\ C15_LimitSent
    /\ paging.last.tool = "queryDataset" => C15_OffsetSent
    /\ paging.last.tool = "previewDataset" => paging.last.sentOffset = Undefined
C15_Witness ==
  /\ paging.calls = 2
  /\ paging.last.tool = "queryDataset"
  /\ paging.last.via = "$query"
  /\ paging.last.limit = Num(0 - 1)
  /\ paging.last.offset = Num(DEFAULT_MAX_OFFSET + 1)
  /\ paging.last.sentLimit = Num(1)
  /\ paging.last.sentOffset = Num(DEFAULT_MAX_OFFSET)

\* the text of a clause outside its quoted literals, read from left to
\* right from index i: a literal opens at a quote of either kind that is
\* outside every literal and runs to the next quote of its kind
RECURSIVE C16_OutsideLiterals(_, _)
C16_OutsideLiterals(s, i) ==
  IF i > Len(s) THEN ""
  ELSE IF Ch(s, i) \in {"'", "\""} /\ ClosingQuote(s, Ch(s, i), i + 1) > 0
    THEN C16_OutsideLiterals(s, ClosingQuote(s, Ch(s, i), i + 1) + 1)
  ELSE Ch(s, i) \o C16_OutsideLiterals(s, i + 1)
\* both functions reject the latest input with an error that names the kind
C16_RejectedAs(kind) ==
  /\ HasLiteral(soql.query.err, "Unsafe " \o kind)
  /\ HasLiteral(soql.map.err, "Unsafe " \o kind)
C16_Accepted == soql.query.err = "" /\ soql.map.err = ""

\* C16: a raw where or having string is rejected with an error naming the
\* clause kind whenever a denylisted token occurs outside its quoted
\* literals, and accepted when such tokens occur inside single- or
\* double-quoted literals only.
C16_DenylistOutsideLiterals ==
  \A text \in RawClauses :
    /\ soql.params = Placed("where", text) =>
         IF DANGEROUS_PATTERNS(C16_OutsideLiterals(text, 1))
         THEN C16_RejectedAs("where") ELSE C16_Accepted
    /\ soql.params = Placed("having", text) =>
         IF DANGEROUS_PATTERNS(C16_OutsideLiterals(text, 1))
         THEN C16_RejectedAs("having") ELSE C16_Accepted

\* the function names the latest input carries
C17_FunctionNames ==
  ({soql.params.select[i].function : i \in 1..Len(soql.params.select)}
     \cup {soql.params.where.conds[i].columnFunction :
             i \in 1..Len(soql.params.where.conds)}
     \cup {soql.params.where.conds[i].valueFunction :
             i \in 1..Len(soql.params.where.conds)}) \ {""}

\* C17: an input that carries a function name, in a select field or as the
\* columnFunction or valueFunction of a condition, that is neither one of
\* the aggregates nor one of the transforms of the allow-list is rejected
\* by buildSoqlQuery and by buildSoqlParams.
C17_FunctionAllowList ==
  ~(C17_FunctionNames \subseteq AggregateFunctions \cup TransformFunctions) =>
    soql.query.err # "" /\ soql.map.err # ""

\* the field grammar: a leading letter, underscore or @, followed by
\* letters, digits, _, :, @, -; or *
C18_FieldGrammar(id) ==
  \/ id = "*"
  \/ /\ id # ""
     /\ Ch(id, 1) \in Letters \cup {"_", "@"}
     /\ \A i \in 2..Len(id) : Ch(id, i) \in Letters \cup Digits \cup {"_", ":", "@", "-"}

\* C18: with an identifier as a select column, an alias, a where field, a
\* group column or an order column, compilation succeeds when the
\* identifier matches the field grammar or is *, and raises an error when
\* it does not.
C18_IdentifierGrammar ==
  \A id \in Identifiers :
    soql.params \in {Placed(place, id) :
                       place \in {"select string", "select column", "alias",
                                  "where field", "group", "order"}} =>
      IF C18_FieldGrammar(id) THEN soql.query.err = "" /\ soql.map.err = ""
      ELSE soql.query.err # "" /\ soql.map.err # ""

\* the number of places where sub occurs in s
C19_Occurrences(s, sub) ==
  Cardinality({i \in 1..Len(s) : i + Len(sub) - 1 <= Len(s)
                                   /\ SubSeq(s, i, i + Len(sub) - 1) = sub})
\* text is head, then a parenthesized list of n items joined by commas
C19_IsList(text, head, n) ==
  /\ Len(text) > Len(head) + 1
  /\ SubSeq(text, 1, Len(head)) = head
  /\ Ch(text, Len(head) + 1) = "("
  /\ Ch(text, Len(text)) = ")"
  /\ C19_Occurrences(text, ", ") = n - 1

\* C19: a condition with in / not in whose values is absent or empty, and
\* one with between / not between whose value or value2 is absent, raises
\* an error and renders nothing; in / not in with a non-empty values list
\* renders the column, the operator and a parenthesized, comma-joined list.
C19_OperandsRequired ==
  soql.params.where.kind = "single" =>
    LET c == soql.params.where.conds[1]
    IN /\ (c.operator \in {"in", "not in"} /\ (~c.hasValues \/ Len(c.values) = 0)) =>
            soql.query = Thrown(soql.query.err) /\ soql.query.err # ""
       /\ (c.operator \in {"between", "not between"}
              /\ (c.value = Undefined \/ c.value2 = Undefined)) =>
            soql.query = Thrown(soql.query.err) /\ soql.query.err # ""
       /\ (c.operator \in {"in", "not in"} /\ c.hasValues /\ Len(c.values) > 0
              /\ (c.valueIsNumeric =>
                    \A i \in 1..Len(c.values) : c.values[i].t = "number")) =>
            /\ soql.query.err = ""
            /\ C19_IsList(soql.query.text,
                          "WHERE " \o c.field \o " "
                            \o (IF c.operator = "in" THEN "IN" ELSE "NOT IN") \o " ",
                          Len(c.values))

\* the keywords of the clauses, in the order of ParamKeys
C20_Keywords ==
  <<"SELECT", "WHERE", "GROUP BY", "HAVING", "ORDER BY", "SEARCH", "LIMIT", "OFFSET">>
\* the clauses made of the values of a parameter map, each after its
\* keyword, joined by spaces
C20_Assembled(entries) ==
  Join(NonEmpty([i \in 1..Len(ParamKeys) |->
                   IF ParamKeys[i] \in DOMAIN entries
                   THEN C20_Keywords[i] \o " " \o entries[ParamKeys[i]] ELSE ""]), " ")
\* a parameter map with its $q, if any, in single quotes, each quote in it
\* doubled
C20_Quoted(entries) ==
  [k \in DOMAIN entries |->
     IF k = "$q" THEN "'" \o DoubleQuotes(entries[k]) \o "'" ELSE entries[k]]

\* C20 as stated: buildSoqlParams and buildSoqlQuery reject the same
\* inputs, and each value of the parameter map is the text buildSoqlQuery
\* renders for that clause, without its keyword.
C20_SameClauses ==
  soql.calls > 0 =>
    /\ (soql.query.err # "") = (soql.map.err # "")
    /\ soql.query.err = "" => soql.query.text = C20_Assembled(soql.map.result)

\* C20, amended: buildSoqlParams and buildSoqlQuery reject the same inputs
\* with the same error, and each value of the parameter map but $q is the
\* text buildSoqlQuery renders for that clause, without its keyword; $q is
\* the search text as given, which buildSoqlQuery renders after SEARCH in
\* single quotes with each quote doubled.
C20_SameClausesButSearch ==
  soql.calls > 0 =>
    /\ soql.query.err = soql.map.err
    /\ soql.query.err = "" =>
         soql.query.text = C20_Assembled(C20_Quoted(soql.map.result))
C20_Witness ==
  /\ soql.calls = 2
  /\ soql.params.search = "O'Brien"
  /\ soql.map.err = ""
  /\ DOMAIN soql.map.result = {ParamKeys[i] : i \in 1..Len(ParamKeys)}
  /\ soql.map.result["$q"] = "O'Brien"
  /\ soql.map.result["$where"]
       = "(borough = 'MANHATTAN') OR (borough = 'O''Brien') AND (amount > 5)"
  /\ HasLiteral(soql.query.text, "SEARCH 'O''Brien' LIMIT 10 OFFSET 5")

\* the chain a where array stands for: each condition in its own
\* parentheses, joined to what is before it by the booleanType of the
\* condition before it, or by AND
RECURSIVE C21_Chain(_)
C21_Chain(conds) ==
  LET n == Len(conds)
      own == "(" \o buildConditionExpression(conds[n]).text \o ")"
  IN IF n = 1 THEN own
     ELSE C21_Chain(SubSeq(conds, 1, n - 1)) \o " "
            \o (IF conds[n - 1].booleanType # "" THEN conds[n - 1].booleanType
                ELSE "AND")
            \o " " \o own

\* C21: a where array of two or more conditions is rendered as the chain of
\* its conditions in input order, each joined by the booleanType of the
\* condition before it (AND when it has none); the booleanType of the last
\* condition changes nothing.
C21_JoinedByPrevious ==
  LET where == soql.params.where
      n == Len(where.conds)
  IN (soql.calls > 0 /\ where.kind = "array" /\ n >= 2 /\ soql.query.err = "") =>
       /\ soql.map.result["$where"] = C21_Chain(where.conds)
       /\ soql.params = Placed("conditions", where.conds) =>
            soql.query.text = "WHERE " \o C21_Chain(where.conds)
       /\ \A type \in {"", "AND", "OR"} :
            buildWhereClause(Conditions([where.conds EXCEPT ![n].booleanType = type]))
              = Ok(soql.map.result["$where"])
C21_Witness ==
  /\ soql.calls = 1
  /\ soql.params.where.kind = "array"
  /\ [i \in 1..Len(soql.params.where.conds) |-> soql.params.where.conds[i].booleanType]
       = <<"OR", "", "OR">>
  /\ soql.query.text = "WHERE (a = 'x') OR (b = 'y') AND (c = 'O''Brien')"

\* an identifier, optionally followed by white space and ASC or DESC in any
\* letter case, and nothing else, white space around the entry left aside
C22_OrderGrammar(entry) ==
  LET t == trim(entry)
  IN \E n \in 1..Len(t) :
       /\ IDENT(SubSeq(t, 1, n))
       /\ \/ n = Len(t)
          \/ /\ Ch(t, n + 1) \in WhiteSpace
             /\ toLowerCase(trimStart(SubSeq(t, n + 1, Len(t)))) \in {"asc", "desc"}

\* C22: an order entry is accepted exactly when it is an identifier
\* optionally followed by ASC or DESC in any letter case; every other entry
\* raises the error "Unsafe order clause".
C22_OrderCaseInsensitive ==
  (soql.calls > 0 /\ Len(soql.params.order) = 1
     /\ soql.params = Placed("order", soql.params.order[1])) =>
    LET entry == soql.params.order[1]
    IN IF C22_OrderGrammar(entry)
         THEN soql.query = Ok("ORDER BY " \o entry)
         ELSE soql.query = Thrown("Unsafe order clause: " \o entry)

\* the SoqlParams that hold the structured input of a concern whenever it is
\* supplied, and the legacy input only when it is not
C23_StructuredParams(input, safeLimit, safeOffset) ==
  SoqlParams(IF input.suppliedSelectFields THEN input.selectFields
             ELSE [i \in 1..Len(input.select) |-> SelectString(input.select[i])],
             IF input.whereConditions.kind # "undefined" THEN input.whereConditions
             ELSE IF input.where # "" THEN RawWhere(input.where)
             ELSE NoWhere,
             input.order, input.group, input.having, input.search,
             safeLimit, safeOffset)

\* C23: when queryDataset is given a structured and a legacy input for the
\* same concern, empty arrays included, the query it sends is compiled from
\* the structured input only; a legacy input given alone is the one compiled.
C23_StructuredOverLegacy ==
  (paging.calls > 0 /\ paging.last.tool = "queryDataset" /\ paging.last.via = "$query") =>
    paging.last.query
      = buildSoqlQuery(C23_StructuredParams(QueryInputs[paging.last.input],
                                            paging.last.sentLimit,
                                            paging.last.sentOffset)).text

\* the clauses the input of the latest call holds, by their place in the
\* clause order; an empty array or string is an absent clause
C24_Present ==
  LET p == soql.params
  IN <<Len(p.select) > 0,
       \/ p.where.kind = "single"
       \/ p.where.kind = "string" /\ p.where.text # ""
       \/ p.where.kind = "array" /\ Len(p.where.conds) > 0,
       Len(p.group) > 0, p.having # "", Len(p.order) > 0, p.search # "",
       p.limit.t = "number", p.offset.t = "number">>

\* the clauses of the latest buildSoqlQuery call from the i-th on, each the
\* keyword of its parameter and the value buildSoqlParams gives it (the
\* search term as a quoted literal), one space between two clauses
RECURSIVE C24_ClausesFrom(_)
C24_ClausesFrom(i) ==
  IF i > Len(ParamKeys) THEN ""
  ELSE LET key == ParamKeys[i]
           keyword == <<"SELECT", "WHERE", "GROUP BY", "HAVING", "ORDER BY", "SEARCH",
                        "LIMIT", "OFFSET">>[i]
           value == soql.map.result[key]
           clause == keyword \o " " \o
                       (IF key = "$q" THEN "'" \o DoubleQuotes(value) \o "'" ELSE value)
           rest == C24_ClausesFrom(i + 1)
       IN IF ~C24_Present[i] THEN rest
          ELSE IF rest = "" THEN clause
          ELSE clause \o " " \o rest

\* C24: buildSoqlQuery emits the clauses that are present in the order
\* SELECT, WHERE, GROUP BY, HAVING, ORDER BY, SEARCH, LIMIT, OFFSET, one space
\* between two of them, and omits every absent clause; the empty input gives
\* the empty string.
C24_ClauseOrder ==
  (soql.calls > 0 /\ soql.query.err = "") =>
    /\ soql.query.text = C24_ClausesFrom(1)
    /\ soql.params = NoParams => soql.query.text = ""
C24_Witness ==
  /\ soql.calls = 1
  /\ soql.params.having = "count(*) > 1"
  /\ soql.params.limit = Undefined
  /\ soql.query.text = "SELECT a WHERE b = 1 GROUP BY c HAVING count(*) > 1 "
                         \o "ORDER BY d DESC SEARCH 'e' OFFSET 20"

\* the single-quoted literals of a text read from left to right from index
\* i, each with its doubled quotes made single again: a literal opens at the
\* first quote and ends at the last quote of the first run of quotes of odd
\* length after it; a literal that the text leaves open is given as
\* <<"unterminated">> after the others
RECURSIVE C25_LiteralsFrom(_, _)
C25_LiteralsFrom(text, i) ==
  LET Least(S) == CHOOSE j \in S : \A k \in S : j <= k
      opening == {j \in i..Len(text) : Ch(text, j) = "'"}
      start == Least(opening)
      \* the quotes that end a run of quotes of odd length
      closing ==
        {j \in (start + 1)..Len(text) :
           /\ Ch(text, j) = "'"
           /\ j = Len(text) \/ Ch(text, j + 1) # "'"
           /\ \E n \in 1..(j - start) :
                /\ n % 2 = 1
                /\ \A k \in (j - n + 1)..j : Ch(text, k) = "'"
                /\ j - n = start \/ Ch(text, j - n) # "'"}
      RECURSIVE Single(_)
      Single(body) ==
        IF body = "" THEN ""
        ELSE IF Len(body) >= 2 /\ SubSeq(body, 1, 2) = "''"
          THEN "'" \o Single(SubSeq(body, 3, Len(body)))
        ELSE Ch(body, 1) \o Single(SubSeq(body, 2, Len(body)))
  IN IF opening = {} THEN <<>>
     ELSE IF closing = {} THEN << <<"unterminated">> >>
     ELSE <<Single(SubSeq(text, start + 1, Least(closing) - 1))>>
            \o C25_LiteralsFrom(text, Least(closing) + 1)

\* the operands a condition renders as literals
C25_Operands(c) ==
  IF c.operator \in {"is null", "is not null"} THEN <<>>
  ELSE IF c.operator \in {"between", "not between"} THEN <<c.value, c.value2>>
  ELSE IF c.operator \in {"in", "not in"} /\ c.hasValues THEN c.values
  ELSE <<c.value>>

\* the string values of an input, in the order of their clauses: the string
\* arguments of the select functions, the operands of the conditions, the
\* search term
RECURSIVE C25_Flat(_)
C25_Flat(lists) ==
  IF Len(lists) = 0 THEN <<>> ELSE Head(lists) \o C25_Flat(Tail(lists))
C25_Values(params) ==
  LET strings(values) ==
        C25_Flat([i \in 1..Len(values) |->
                    IF values[i].t = "string" THEN <<values[i].s>> ELSE <<>>])
  IN C25_Flat([i \in 1..Len(params.select) |->
                 IF params.select[i].function # ""
                   THEN strings(params.select[i].args) ELSE <<>>])
     \o C25_Flat([i \in 1..Len(params.where.conds) |->
                    strings(C25_Operands(params.where.conds[i]))])
     \o (IF params.search # "" THEN <<params.search>> ELSE <<>>)

C26_AllowSemantics ==
  /\ [](/\ \A i \in 1..NumLimbs : allowance[i] >= 0
        /\ ~Less(FromInt(ratePerHour), allowance))
  /\ [][lim'.calls = lim.calls + 1 =>
          LET sum == Plus(allowance,
                          Times(now - lastCheck, Quotient(ratePerHour, MsPerHour)))
              refilled == IF Less(FromInt(ratePerHour), sum)
                            THEN FromInt(ratePerHour) ELSE sum
              returned == lim'.returns[lim'.calls]
          IN /\ lastCheck' = now
             /\ returned = ~Less(refilled, FromInt(1))
             /\ ~returned => (allowance' = refilled /\ ~Less(allowance', allowance))
             /\ returned => allowance' = MinusOne(refilled)]_vars
C26_Witness ==
  /\ lim.calls >= 2
  /\ ~lim.returns[lim.calls]
  /\ lastCheck = now
  /\ now > 0
  /\ Less(FromInt(0), allowance)
  /\ Less(allowance, FromInt(1))

\* C28: a getMetadata call returns only a response obtained by a request
\* that carried the call's own credentials: the headers of the request that
\* fetched the response are those of the call's auth override, or of the
\* domain's setting when the call has none.
C28_OwnCredentialsOnly ==
  \A i \in 1..Len(meta.calls) :
    meta.calls[i].state = "returned" =>
      \E k \in 1..Len(meta.carried) :
        /\ meta.calls[i].ret = <<"r1", "r2", "r3", "r4", "r5">>[k]
        /\ attachAuth(auth.domain, meta.carried[k])
             = attachAuth(auth.domain, meta.calls[i].override)

\* the text of a clause outside its literals when the quote characters are
\* the only delimiters, read from left to right from index i: a literal
\* opens at a quote of either kind that is outside every literal and ends at
\* the next quote of its kind, whatever stands before that quote
RECURSIVE C29_OutsideQuotes(_, _)
C29_OutsideQuotes(s, i) ==
  LET closing == {j \in (i + 1)..Len(s) : Ch(s, j) = Ch(s, i)}
  IN IF i > Len(s) THEN ""
     ELSE IF Ch(s, i) \in {"'", "\""} /\ closing # {}
       THEN C29_OutsideQuotes(s, (CHOOSE j \in closing : \A k \in closing : j <= k) + 1)
     ELSE Ch(s, i) \o C29_OutsideQuotes(s, i + 1)

\* C29: no raw where or having string is accepted that has a denylisted
\* token outside every literal, the literals being read from left to right
\* with the quote characters as the only delimiters.
C29_NoTokenOutsideQuotes ==
  \A place \in {"where", "having"} :
    (soql.calls > 0 /\ soql.params = Placed(place, soql.params.where.text \o soql.params.having)
       /\ DANGEROUS_PATTERNS(C29_OutsideQuotes(soql.params.where.text \o soql.params.having, 1)))
    => soql.query.err # "" /\ soql.map.err # ""

\* the entries of a catalog that have a resource id, in catalog order
RECURSIVE C27_Identified(_)
C27_Identified(catalog) ==
  IF Len(catalog) = 0 THEN <<>>
  ELSE IF catalog[1] = 0 THEN C27_Identified(Tail(catalog))
  ELSE <<catalog[1]>> \o C27_Identified(Tail(catalog))

\* C27: listDatasets enriches the catalog results in batches of at most 5:
\* never more than 5 enrichments (each a metadata and a preview request) are
\* in flight, no request of a batch is issued before every request of the
\* batch before it has completed, and the datasets returned are in catalog
\* order.
C27_BatchesOfFive ==
  LET flying(e) == "flying" \in {enrich.requests[e].meta, enrich.requests[e].rows}
      issued(e) == enrich.requests[e] # [meta |-> "unissued", rows |-> "unissued"]
      completed(e) == enrich.requests[e] = [meta |-> "ok", rows |-> "ok"]
      batchOf(e) == (e - 1) \div 5
  IN /\ Cardinality({e \in 1..Len(enrich.requests) : flying(e)}) <= 5
     /\ \A e \in 1..Len(enrich.requests) :
          issued(e) => enrich.requests[e].meta # "unissued" /\ enrich.requests[e].rows # "unissued"
     /\ \A e, f \in 1..Len(enrich.requests) :
          (batchOf(e) < batchOf(f) /\ issued(f)) => completed(e)
     /\ enrich.state = "returned" => enrich.datasets = C27_Identified(enrich.catalog)
C27_Witness ==
  /\ enrich.state = "returned"
  /\ enrich.datasets = <<6, 7, 3, 8, 9, 5>>

\* two spellings of one domain: equal once lower-cased and trimmed
C30_Normalized == [d \in RequestedDomains |-> trim(toLowerCase(d))]
C30_SameDomain(d1, d2) == C30_Normalized[d1] = C30_Normalized[d2]

\* the allow() calls made for the domain of log entry i, and the network calls
\* among them
C30_Attempts(i) == {k \in DOMAIN reg.log : C30_SameDomain(reg.log[k].domain, reg.log[i].domain)}
C30_NetworkCalls(i) == {k \in C30_Attempts(i) : reg.log[k].granted}

\* C30: the requests made through one registry for one normalized domain have
\* one client and one limiter: every attempt, a retry too, asks that limiter
\* once and a network call takes one token from it (without time between the
\* attempts the limiter holds the capacity less the network calls started, and
\* denies only when they took all of it), and the network calls started for
\* the domain in any window of T ms number at most
\* capacity + T * capacity / 3600000
C30_OneLimiterPerDomain ==
  /\ \A r1, r2 \in DOMAIN reg.requests :
       C30_SameDomain(reg.requests[r1].domain, reg.requests[r2].domain)
         => reg.requests[r1].client = reg.requests[r2].client
  /\ Cardinality({<<r, n>> \in (DOMAIN reg.requests) \X (1..maxRetries) :
                    n <= reg.requests[r].attempt}) = Len(reg.log)
  /\ \A r \in DOMAIN reg.requests : \A i \in DOMAIN reg.log :
       /\ reg.log[i].domain = reg.requests[r].domain
       /\ \A k \in C30_Attempts(i) : reg.log[k].at = reg.log[i].at
       => /\ reg.limiters[reg.requests[r].client].allowance
               = FromInt(ratePerHour - Cardinality(C30_NetworkCalls(i)))
          /\ C30_Attempts(i) # C30_NetworkCalls(i)
               => Cardinality(C30_NetworkCalls(i)) = ratePerHour
  /\ \A i, j \in DOMAIN reg.log :
       i <= j /\ j \in C30_NetworkCalls(i) /\ i \in C30_NetworkCalls(i)
       => (Cardinality(C30_NetworkCalls(i) \cap (i..j)) - ratePerHour) * MsPerHour
            <= (reg.log[j].at - reg.log[i].at) * ratePerHour

\* two spellings of one domain were asked for and used the capacity up, and
\* after a wait a retry started one network call more
C30_Witness ==
  \E i, j \in DOMAIN reg.log :
    /\ reg.log[i].domain # reg.log[j].domain
    /\ j \in C30_Attempts(i)
    /\ Cardinality(C30_NetworkCalls(i)) > ratePerHour
    /\ \E r \in DOMAIN reg.requests : reg.requests[r].attempt = 2

====
